---- MODULE Spec2Model ----
(***************************************************************************)
(* Filesystem backends of eino-ext/adk/backend: the agentkit sandbox tool  *)
(* backend (scripts rendered from templates, shipped over a signed HTTP    *)
(* InvokeTool call, decoded from a double JSON envelope) and the local     *)
(* backend (direct OS calls).                                              *)
(*                                                                         *)
(* Data representation                                                     *)
(*   text    a sequence of one-character tokens; "CR" and "LF" stand for   *)
(*           carriage return and line feed                                 *)
(*   path    a sequence of segments; an absolute path starts with "/"      *)
(*   output  (stdout / diagnostic) a sequence of lines, each a record      *)
(*           [num, s]: num is the printed line number (0 when the line     *)
(*           carries none), s the tokens of the line                       *)
(*   error   a record whose field kind is "nil" for a nil error            *)
(*   *int    a record [nil, v]                                             *)
(***************************************************************************)
EXTENDS Integers, Sequences, FiniteSets, TLC

VARIABLES
    newConfig, \* the Config the constructor was given
    newErr,    \* the error the constructor returned
    kind,      \* which backend the program was built with: "sandbox" or "local"
    backend,   \* sandboxToolBackend: the session identity fixed at construction
    fs,        \* the file tree the backend operates on: path -> text
    pc,        \* per caller: position of its current call
    call,      \* per caller: the request of the current (or last) call
    pre,       \* per caller: the file tree when the call started
    sent,      \* per caller: HTTP requests sent by the current call
    wire,      \* per caller: the invokeToolRequest in flight (or none)
    srv,       \* per caller: progress of the remote script
    env,       \* per caller: the result envelope the remote run produced
    resp,      \* per caller: what the HTTP layer delivered to the call
    ret,       \* per caller: what the call returned
    streaming, \* the one ExecuteStreaming call of the local backend
    indexing   \* the Elasticsearch indexer and its one Store call

vars ==
    <<newConfig, newErr, kind, backend, fs, pc, call, pre, sent, wire, srv, env, resp, ret,
      streaming, indexing>>

-----------------------------------------------------------------------------
(* Bounds of the model *)

MaxTextLen == 3     \* longest file text drawn for the edit checks
MaxOldLen == 2      \* longest OldString / NewString drawn for the edit checks
MaxLines == 4       \* most lines of the short files drawn for the read checks
MaxSend == 3        \* cap on the per-call request counter
ChanCap == 2        \* items the pipe of ExecuteStreaming holds (100 in the code)
PipeCap == 1        \* chunks of stdout the operating system holds for a command

-----------------------------------------------------------------------------
(* Generic sequence helpers *)

Min(a, b) == IF a < b THEN a ELSE b

Max(a, b) == IF a > b THEN a ELSE b

\* s[from..to] with out-of-range bounds clipped, <<>> when empty
Slice(s, from, to) ==
    IF from > to \/ from > Len(s) THEN <<>>
    ELSE SubSeq(s, Max(from, 1), Min(to, Len(s)))

\* all sequences over S of length 0..n
SeqsUpTo(S, n) == UNION {[1..k -> S] : k \in 0..n}

\* does sub occur in s starting at index i
MatchAt(s, sub, i) ==
    /\ i >= 1
    /\ i + Len(sub) - 1 <= Len(s)
    /\ \A k \in 1..Len(sub) : s[i + k - 1] = sub[k]

-----------------------------------------------------------------------------
(* Paths: filepath.Clean and filepath.IsAbs as formatPath uses them *)

RECURSIVE CleanSegs(_, _, _)
CleanSegs(segs, stack, rooted) ==
    IF segs = <<>> THEN stack
    ELSE LET h == Head(segs)
             t == Tail(segs)
         IN  IF h = "." THEN CleanSegs(t, stack, rooted)
             ELSE IF h = ".."
                  THEN IF stack # <<>> /\ stack[Len(stack)] # ".."
                       THEN CleanSegs(t, SubSeq(stack, 1, Len(stack) - 1), rooted)
                       ELSE IF rooted THEN CleanSegs(t, stack, rooted)
                            ELSE CleanSegs(t, Append(stack, ".."), rooted)
                  ELSE CleanSegs(t, Append(stack, h), rooted)

IsAbs(p) == p # <<>> /\ p[1] = "/"

Clean(p) ==
    LET rooted == IsAbs(p)
        body == CleanSegs(IF rooted THEN Tail(p) ELSE p, <<>>, rooted)
    IN  IF rooted THEN <<"/">> \o body
        ELSE IF body = <<>> THEN <<".">> ELSE body

Range(s) == {s[i] : i \in 1..Len(s)}

\* errors: msg holds the message as a sequence of phrases (wrapping prepends),
\* code the %d argument, text the remote diagnostic embedded with %s
Err(msg, code, text) == [nil |-> FALSE, msg |-> msg, code |-> code, text |-> text]

NilErr == [nil |-> TRUE, msg |-> <<>>, code |-> 0, text |-> <<>>]

\* fmt.Errorf("...: %w", err)
Wrap(phrase, e) == [e EXCEPT !.msg = <<phrase>> \o e.msg]

\* does the error's message contain the phrase
Mentions(e, phrase) ==
    /\ ~e.nil
    /\ \/ phrase \in Range(e.msg)
       \/ \E i \in 1..Len(e.text) : phrase \in Range(e.text[i].s)

\* mutant: the default path is not used
formatPath_noDefault(path, defaultPath, requireAbs) ==
    LET p == Clean(path)
    IN  IF requireAbs /\ ~IsAbs(p)
        THEN [path |-> <<>>, err |-> Err(<<"path must be an absolute path">>, 0, <<>>)]
        ELSE [path |-> p, err |-> NilErr]

\* formatPath(path, defaultPath, requireAbs) -> [path, err]
formatPath(path, defaultPath, requireAbs) ==
    LET p0 == IF path = <<>> /\ defaultPath # <<>> THEN defaultPath ELSE path
        p == Clean(p0)
    IN  IF requireAbs /\ ~IsAbs(p)
        THEN [path |-> <<>>, err |-> Err(<<"path must be an absolute path">>, 0, <<>>)]
        ELSE [path |-> p, err |-> NilErr]

-----------------------------------------------------------------------------
(* Text operations of the edit script (str.count / str.replace) and of the *)
(* local Edit (strings.Count / strings.Replace): both count and replace    *)
(* non-overlapping occurrences scanning from the left                      *)

RECURSIVE CountFrom(_, _, _)
CountFrom(text, old, i) ==
    IF i + Len(old) - 1 > Len(text) THEN 0
    ELSE IF MatchAt(text, old, i) THEN 1 + CountFrom(text, old, i + Len(old))
         ELSE CountFrom(text, old, i + 1)

Count(text, old) == CountFrom(text, old, 1)

\* replace the first n occurrences (every occurrence when n < 0)
RECURSIVE ReplaceFrom(_, _, _, _, _)
ReplaceFrom(text, old, new, i, n) ==
    IF i > Len(text) THEN <<>>
    ELSE IF n # 0 /\ MatchAt(text, old, i)
         THEN new \o ReplaceFrom(text, old, new, i + Len(old), n - 1)
         ELSE <<text[i]>> \o ReplaceFrom(text, old, new, i + 1, n)

Replace(text, old, new, n) == ReplaceFrom(text, old, new, 1, n)

\* Python text mode, open(path, 'r') with newline=None: "\r\n" and a lone
\* "\r" are translated to "\n" before the script sees the text
UniversalNewlines(text) ==
    LET tagged == [i \in 1..Len(text) |->
                      [c |-> text[i], afterCR |-> i > 1 /\ text[i - 1] = "CR"]]
        kept == SelectSeq(tagged, LAMBDA t : ~(t.c = "LF" /\ t.afterCR))
    IN  [i \in 1..Len(kept) |-> IF kept[i].c = "CR" THEN "LF" ELSE kept[i].c]

\* split at every "LF"; a trailing piece without "LF" is a line when non-empty
SplitLF(text) ==
    LET ends == SelectSeq([i \in 1..Len(text) |-> i], LAMBDA i : text[i] = "LF")
        start(k) == IF k = 1 THEN 1 ELSE ends[k - 1] + 1
        body == [k \in 1..Len(ends) |-> SubSeq(text, start(k), ends[k] - 1)]
        rest == start(Len(ends) + 1)
    IN  IF rest <= Len(text) THEN Append(body, SubSeq(text, rest, Len(text))) ELSE body

\* f.readlines() followed by line.rstrip('\n') in the read script
PyLines(text) == SplitLF(UniversalNewlines(text))

\* bufio.Scanner with ScanLines: split at "\n", drop one trailing "\r"
DropCR(line) ==
    IF line # <<>> /\ line[Len(line)] = "CR" THEN SubSeq(line, 1, Len(line) - 1)
    ELSE line

GoLines(text) == LET ls == SplitLF(text) IN [i \in 1..Len(ls) |-> DropCR(ls[i])]

\* base64.StdEncoding.EncodeToString on the Go side, base64.b64decode in the script
B64Encode(x) == <<"b64", x>>

B64Decode(e) == e[2]

-----------------------------------------------------------------------------
(* Output lines *)

\* f: the file a grep match was found in (<<>> on every other line)
Line(n, toks) == [num |-> n, s |-> toks, f |-> <<>>]

\* one printed line that carries no line number
Diag(toks) == <<Line(0, toks)>>

NilInt == [nil |-> TRUE, v |-> 0]

IntPtr(n) == [nil |-> FALSE, v |-> n]

-----------------------------------------------------------------------------
(* Construction: Config -> sandboxToolBackend *)

RegionOfBeijing == "cn-beijing"

RegionOfShangHai == "cn-shanghai"

regionOfBeijingBaseURL == "https://agentkit.cn-beijing.volces.com"

regionOfShangHaiBaseURL == "https://agentkit.cn-shanghai.volces.com"

NoBackend ==
    [accessKeyID |-> "", secretAccessKey |-> "", region |-> "", baseURL |-> "",
     toolID |-> "", sessionID |-> "", userSessionID |-> "",
     sessionTTL |-> 0, executionTimeout |-> 0]

\* mutant: an empty ToolID is accepted
NewSandboxToolBackend_noToolID(config) ==
    IF config.AccessKeyID = ""
    THEN [backend |-> NoBackend, err |-> Err(<<"AccessKeyID is required">>, 0, <<>>)]
    ELSE IF config.SecretAccessKey = ""
    THEN [backend |-> NoBackend, err |-> Err(<<"SecretAccessKey is required">>, 0, <<>>)]
    ELSE IF config.SessionID = "" /\ config.UserSessionID = ""
    THEN [backend |-> NoBackend,
          err |-> Err(<<"SessionID or UserSessionID is required, at least one must be provided">>,
                      0, <<>>)]
    ELSE LET region == IF config.Region = "" THEN RegionOfBeijing ELSE config.Region
         IN  IF region \notin {RegionOfBeijing, RegionOfShangHai}
             THEN [backend |-> NoBackend,
                   err |-> Err(<<"invalid region", region>>, 0, <<>>)]
             ELSE [backend |->
                      [accessKeyID |-> config.AccessKeyID,
                       secretAccessKey |-> config.SecretAccessKey,
                       region |-> region,
                       baseURL |-> IF region = RegionOfBeijing
                                   THEN regionOfBeijingBaseURL
                                   ELSE regionOfShangHaiBaseURL,
                       toolID |-> config.ToolID,
                       sessionID |-> config.SessionID,
                       userSessionID |-> config.UserSessionID,
                       sessionTTL |-> config.SessionTTL,
                       executionTimeout |-> config.ExecutionTimeout],
                   err |-> NilErr]

\* mutant: two session identifiers are as wrong as none
NewSandboxToolBackend_exactlyOne(config) ==
    IF config.AccessKeyID = ""
    THEN [backend |-> NoBackend, err |-> Err(<<"AccessKeyID is required">>, 0, <<>>)]
    ELSE IF config.SecretAccessKey = ""
    THEN [backend |-> NoBackend, err |-> Err(<<"SecretAccessKey is required">>, 0, <<>>)]
    ELSE IF config.ToolID = ""
    THEN [backend |-> NoBackend, err |-> Err(<<"ToolID is required">>, 0, <<>>)]
    ELSE IF (config.SessionID = "") = (config.UserSessionID = "")
    THEN [backend |-> NoBackend,
          err |-> Err(<<"SessionID or UserSessionID is required, at least one must be provided">>,
                      0, <<>>)]
    ELSE LET region == IF config.Region = "" THEN RegionOfBeijing ELSE config.Region
         IN  IF region \notin {RegionOfBeijing, RegionOfShangHai}
             THEN [backend |-> NoBackend,
                   err |-> Err(<<"invalid region", region>>, 0, <<>>)]
             ELSE [backend |->
                      [accessKeyID |-> config.AccessKeyID,
                       secretAccessKey |-> config.SecretAccessKey,
                       region |-> region,
                       baseURL |-> IF region = RegionOfBeijing
                                   THEN regionOfBeijingBaseURL
                                   ELSE regionOfShangHaiBaseURL,
                       toolID |-> config.ToolID,
                       sessionID |-> config.SessionID,
                       userSessionID |-> config.UserSessionID,
                       sessionTTL |-> config.SessionTTL,
                       executionTimeout |-> config.ExecutionTimeout],
                   err |-> NilErr]

\* mutant: every region is served from the Beijing base URL
NewSandboxToolBackend_oneURL(config) ==
    IF config.AccessKeyID = ""
    THEN [backend |-> NoBackend, err |-> Err(<<"AccessKeyID is required">>, 0, <<>>)]
    ELSE IF config.SecretAccessKey = ""
    THEN [backend |-> NoBackend, err |-> Err(<<"SecretAccessKey is required">>, 0, <<>>)]
    ELSE IF config.ToolID = ""
    THEN [backend |-> NoBackend, err |-> Err(<<"ToolID is required">>, 0, <<>>)]
    ELSE IF config.SessionID = "" /\ config.UserSessionID = ""
    THEN [backend |-> NoBackend,
          err |-> Err(<<"SessionID or UserSessionID is required, at least one must be provided">>,
                      0, <<>>)]
    ELSE LET region == IF config.Region = "" THEN RegionOfBeijing ELSE config.Region
         IN  IF region \notin {RegionOfBeijing, RegionOfShangHai}
             THEN [backend |-> NoBackend,
                   err |-> Err(<<"invalid region", region>>, 0, <<>>)]
             ELSE [backend |->
                      [accessKeyID |-> config.AccessKeyID,
                       secretAccessKey |-> config.SecretAccessKey,
                       region |-> region,
                       baseURL |-> regionOfBeijingBaseURL,
                       toolID |-> config.ToolID,
                       sessionID |-> config.SessionID,
                       userSessionID |-> config.UserSessionID,
                       sessionTTL |-> config.SessionTTL,
                       executionTimeout |-> config.ExecutionTimeout],
                   err |-> NilErr]

NewSandboxToolBackend(config) ==
    IF config.AccessKeyID = ""
    THEN [backend |-> NoBackend, err |-> Err(<<"AccessKeyID is required">>, 0, <<>>)]
    ELSE IF config.SecretAccessKey = ""
    THEN [backend |-> NoBackend, err |-> Err(<<"SecretAccessKey is required">>, 0, <<>>)]
    ELSE IF config.ToolID = ""
    THEN [backend |-> NoBackend, err |-> Err(<<"ToolID is required">>, 0, <<>>)]
    ELSE IF config.SessionID = "" /\ config.UserSessionID = ""
    THEN [backend |-> NoBackend,
          err |-> Err(<<"SessionID or UserSessionID is required, at least one must be provided">>,
                      0, <<>>)]
    ELSE LET region == IF config.Region = "" THEN RegionOfBeijing ELSE config.Region
         IN  IF region \notin {RegionOfBeijing, RegionOfShangHai}
             THEN [backend |-> NoBackend,
                   err |-> Err(<<"invalid region", region>>, 0, <<>>)]
             ELSE [backend |->
                      [accessKeyID |-> config.AccessKeyID,
                       secretAccessKey |-> config.SecretAccessKey,
                       region |-> region,
                       baseURL |-> IF region = RegionOfBeijing
                                   THEN regionOfBeijingBaseURL
                                   ELSE regionOfShangHaiBaseURL,
                       toolID |-> config.ToolID,
                       sessionID |-> config.SessionID,
                       userSessionID |-> config.UserSessionID,
                       sessionTTL |-> config.SessionTTL,
                       executionTimeout |-> config.ExecutionTimeout],
                   err |-> NilErr]

\* the zero Config: what the local backend, which has none of these fields,
\* is given
NoConfig ==
    [AccessKeyID |-> "", SecretAccessKey |-> "", Region |-> "", ToolID |-> "",
     SessionID |-> "", UserSessionID |-> "", SessionTTL |-> 0, ExecutionTimeout |-> 0]

\* the configurations the program is constructed with
Configs ==
    {[AccessKeyID |-> "test-ak", SecretAccessKey |-> "test-sk", Region |-> r,
      ToolID |-> "test-tool", SessionID |-> sid, UserSessionID |-> "test-session",
      SessionTTL |-> t, ExecutionTimeout |-> t] :
        r \in {""}, sid \in {"", "sess-1"}, t \in {0, 60}}

-----------------------------------------------------------------------------
(* Requests of the filesystem.Backend interface, one record shape for all *)

Req(op, path) ==
    [op |-> op, path |-> path, offset |-> 0, limit |-> 0, content |-> <<>>,
     old |-> <<>>, new |-> <<>>, all |-> FALSE, pattern |-> <<>>, glob |-> "",
     cmd |-> ""]

NoReq == Req("none", <<>>)

LsInfoRequest(path) == Req("ls", path)

ReadRequest(path, offset, limit) ==
    [Req("read", path) EXCEPT !.offset = offset, !.limit = limit]

GrepRequest(path, pattern, glob) ==
    [Req("grep", path) EXCEPT !.pattern = pattern, !.glob = glob]

GlobInfoRequest(path, pattern) == [Req("glob", path) EXCEPT !.glob = pattern]

WriteRequest(path, content) == [Req("write", path) EXCEPT !.content = content]

EditRequest(path, old, new, all) ==
    [Req("edit", path) EXCEPT !.old = old, !.new = new, !.all = all]

ExecuteRequest(cmd) == [Req("execute", <<>>) EXCEPT !.cmd = cmd]

-----------------------------------------------------------------------------
(* Facade, first half: validate the request and render the script.         *)
(* Each operator returns [err, script]; a non-nil err is returned to the   *)
(* caller before anything is sent.                                         *)

DefaultLimit == 200

NoScript == [tpl |-> "none", p |-> [none |-> TRUE]]

Rendered(tpl, params) == [err |-> NilErr, script |-> [tpl |-> tpl, p |-> params]]

Rejected(e) == [err |-> e, script |-> NoScript]

\* mutant: LsInfo takes any path, as GlobInfo does
LsInfoRender_loose(req) ==
    LET f == formatPath(req.path, <<"/">>, FALSE)
    IN  Rendered("ls", [path |-> f.path])

LsInfoRender(req) ==
    LET f == formatPath(req.path, <<"/">>, TRUE)
    IN  IF ~f.err.nil THEN Rejected(f.err)
        ELSE Rendered("ls", [path |-> f.path])

\* mutant: a limit <= 0 is passed on as it is
ReadRender_noDefault(req) ==
    LET f == formatPath(req.path, <<>>, TRUE)
        offset == IF req.offset <= 0 THEN 0 ELSE req.offset
    IN  IF ~f.err.nil THEN Rejected(f.err)
        ELSE Rendered("read", [file_path |-> f.path, offset |-> offset, limit |-> req.limit])

ReadRender(req) ==
    LET f == formatPath(req.path, <<>>, TRUE)
        offset == IF req.offset <= 0 THEN 0 ELSE req.offset
        limit == IF req.limit <= 0 THEN DefaultLimit ELSE req.limit
    IN  IF ~f.err.nil THEN Rejected(f.err)
        ELSE Rendered("read", [file_path |-> f.path, offset |-> offset, limit |-> limit])

GrepRawRender(req) ==
    LET f == formatPath(req.path, <<>>, FALSE)
    IN  Rendered("grep", [pattern |-> req.pattern, path |-> f.path,
                          glob_pattern |-> req.glob])

GlobInfoRender(req) ==
    LET f == formatPath(req.path, <<"/">>, FALSE)
    IN  Rendered("glob", [path_b64 |-> B64Encode(f.path),
                          pattern_b64 |-> B64Encode(req.glob)])

WriteRender(req) ==
    LET f == formatPath(req.path, <<>>, TRUE)
    IN  IF ~f.err.nil THEN Rejected(f.err)
        ELSE Rendered("write", [file_path |-> f.path,
                                content_b64 |-> B64Encode(req.content)])

\* mutant: OldString equal to NewString is let through
EditRender_sameAllowed(req) ==
    LET f == formatPath(req.path, <<>>, TRUE)
    IN  IF ~f.err.nil THEN Rejected(f.err)
        ELSE IF req.old = <<>>
        THEN Rejected(Err(<<"old string is required">>, 0, <<>>))
        ELSE Rendered("edit", [file_path |-> f.path,
                               old_b64 |-> B64Encode(req.old),
                               new_b64 |-> B64Encode(req.new),
                               replace_all |-> IF req.all THEN 1 ELSE 0])

EditRender(req) ==
    LET f == formatPath(req.path, <<>>, TRUE)
    IN  IF ~f.err.nil THEN Rejected(f.err)
        ELSE IF req.old = <<>>
        THEN Rejected(Err(<<"old string is required">>, 0, <<>>))
        ELSE IF req.old = req.new
        THEN Rejected(Err(<<"new string must be different from old string">>, 0, <<>>))
        ELSE Rendered("edit", [file_path |-> f.path,
                               old_b64 |-> B64Encode(req.old),
                               new_b64 |-> B64Encode(req.new),
                               replace_all |-> IF req.all THEN 1 ELSE 0])

ExecuteRender(req) ==
    IF req.cmd = "" THEN Rejected(Err(<<"command is required">>, 0, <<>>))
    ELSE Rendered("execute", [command_b64 |-> B64Encode(req.cmd)])

Render(req) ==
    CASE req.op = "ls" -> LsInfoRender(req)
      [] req.op = "read" -> ReadRender(req)
      [] req.op = "grep" -> GrepRawRender(req)
      [] req.op = "glob" -> GlobInfoRender(req)
      [] req.op = "write" -> WriteRender(req)
      [] req.op = "edit" -> EditRender(req)
      [] req.op = "execute" -> ExecuteRender(req)

-----------------------------------------------------------------------------
(* The file tree the scripts and the OS calls act on: a function from the  *)
(* paths of the existing files to their text; directories are the proper   *)
(* prefixes of those paths, and the root                                   *)

Root == <<"/">>

IsPrefix(d, q) == Len(q) > Len(d) /\ SubSeq(q, 1, Len(d)) = d

IsFile(files, p) == p \in DOMAIN files

IsDir(files, p) == p = Root \/ \E q \in DOMAIN files : IsPrefix(p, q)

Exists(files, p) == IsFile(files, p) \/ IsDir(files, p)

\* a relative path is resolved against the working directory, the root
Resolve(p) == IF IsAbs(p) THEN p ELSE Clean(Root \o p)

\* os.makedirs(parent, exist_ok=True) / os.MkdirAll fail when a file is in the way
ParentBlocked(files, p) == \E k \in 2..(Len(p) - 1) : SubSeq(p, 1, k) \in DOMAIN files

PutFile(files, p, text) ==
    [q \in DOMAIN files \cup {p} |-> IF q = p THEN text ELSE files[q]]

\* the order in which names sort
NameOrder == <<"a", "b", "d">>

RECURSIVE SortedNames(_, _)
SortedNames(S, i) ==
    IF i > Len(NameOrder) THEN <<>>
    ELSE (IF NameOrder[i] \in S THEN <<NameOrder[i]>> ELSE <<>>) \o SortedNames(S, i + 1)

ChildNames(files, d) == {q[Len(d) + 1] : q \in {r \in DOMAIN files : IsPrefix(d, r)}}

-----------------------------------------------------------------------------
(* Remote scripts (code_template.go), run against the sandbox file tree.   *)
(* A run yields [files, status, code, out, ename]: the tree afterwards,    *)
(* "ok" (ran to the end), "exit" (sys.exit(code)) or "raise" (uncaught     *)
(* exception ename), and everything printed.                               *)

Ran(files, out) == [files |-> files, status |-> "ok", code |-> 0, out |-> out, ename |-> ""]

Exited(files, code, out) ==
    [files |-> files, status |-> "exit", code |-> code, out |-> out, ename |-> ""]

Raised(files, ename) ==
    [files |-> files, status |-> "raise", code |-> 1, out |-> <<>>, ename |-> ename]

readScript(p, files) ==
    IF ~IsFile(files, p.file_path)
    THEN Exited(files, -1, Diag(<<"Error: File not found">>))
    ELSE IF files[p.file_path] = <<>>
    THEN Exited(files, 0, Diag(<<"System reminder: File exists but has empty contents">>))
    ELSE LET lines == PyLines(files[p.file_path])
             selected == Slice(lines, p.offset + 1, p.offset + p.limit)
         IN  Ran(files, [i \in 1..Len(selected) |-> Line(p.offset + (i - 1) + 1, selected[i])])

JsonFileInfo(name, isDir) == Line(0, <<"json", name, IF isDir THEN "true" ELSE "false">>)

lsInfoScript(p, files) ==
    LET d == Resolve(p.path)
    IN  IF IsFile(files, d) \/ ParentBlocked(files, d)
        THEN Raised(files, "NotADirectoryError")             \* ENOTDIR: not caught
        ELSE IF ~IsDir(files, d) THEN Ran(files, <<>>)     \* FileNotFoundError: pass
        ELSE LET names == SortedNames(ChildNames(files, d), 1)
             IN  Ran(files, [i \in 1..Len(names) |->
                                JsonFileInfo(names[i], IsDir(files, Append(d, names[i])))])

\* mutant: the existence check never finds the file
writeCheck_never(p, files) == FALSE

\* the write script up to its existence check
writeCheck(p, files) == Exists(files, p.file_path)

\* the write script after a passed check: makedirs, decode, open 'w', write
writeCommit(p, files) ==
    IF ParentBlocked(files, p.file_path) THEN Raised(files, "NotADirectoryError")
    ELSE IF IsDir(files, p.file_path) THEN Raised(files, "IsADirectoryError")
    ELSE Ran(PutFile(files, p.file_path, B64Decode(p.content_b64)), <<>>)

writeExists(files) == Exited(files, -1, Diag(<<"Error: File", "already exists">>))

writeScript(p, files) ==
    IF writeCheck(p, files) THEN writeExists(files) ELSE writeCommit(p, files)

\* mutant: with several occurrences and no replace_all the first one is
\* replaced before the script reports the error
editScript_writeFirst(p, files) ==
    IF ~IsFile(files, p.file_path)
    THEN Raised(files, IF IsDir(files, p.file_path) THEN "IsADirectoryError"
                       ELSE "FileNotFoundError")
    ELSE LET text == UniversalNewlines(files[p.file_path])
             old == B64Decode(p.old_b64)
             new == B64Decode(p.new_b64)
             count == Count(text, old)
         IN  IF count = 0
             THEN Exited(files, -1, Diag(<<"Error: String not found in file">>))
             ELSE IF count > 1 /\ p.replace_all = 0
             THEN Exited(PutFile(files, p.file_path, Replace(text, old, new, 1)), -1,
                         Diag(<<"Error: String", "appears multiple times",
                                "Use replace_all=True to replace all occurrences.">>))
             ELSE LET result == IF p.replace_all # 0 THEN Replace(text, old, new, -1)
                                ELSE Replace(text, old, new, 1)
                  IN  Ran(PutFile(files, p.file_path, result), <<Line(count, <<>>)>>)

editScript(p, files) ==
    IF ~IsFile(files, p.file_path)
    THEN Raised(files, IF IsDir(files, p.file_path) THEN "IsADirectoryError"
                       ELSE "FileNotFoundError")
    ELSE LET text == UniversalNewlines(files[p.file_path])
             old == B64Decode(p.old_b64)
             new == B64Decode(p.new_b64)
             count == Count(text, old)
         IN  IF count = 0
             THEN Exited(files, -1, Diag(<<"Error: String not found in file">>))
             ELSE IF count > 1 /\ p.replace_all = 0
             THEN Exited(files, -1, Diag(<<"Error: String", "appears multiple times",
                                           "Use replace_all=True to replace all occurrences.">>))
             ELSE LET result == IF p.replace_all # 0 THEN Replace(text, old, new, -1)
                                ELSE Replace(text, old, new, 1)
                  IN  Ran(PutFile(files, p.file_path, result), <<Line(count, <<>>)>>)

\* every file path of the model, in the order a directory walk visits them
PathOrder == << <<"/", "a">>, <<"/", "b">>, <<"/", "d", "a">> >>

Contains(line, pattern) == \E i \in 1..(Len(line) + 1) : MatchAt(line, pattern, i)

\* --include: the glob is matched against the base name
GlobMatch(name, pat) == pat = "*" \/ pat = name

\* the lines of one file that grep -nF selects, as the script reprints them
RECURSIVE GrepFile(_, _, _, _)
GrepFile(path, lines, pattern, n) ==
    IF n > Len(lines) THEN <<>>
    ELSE (IF Contains(lines[n], pattern)
          THEN <<[num |-> n, s |-> <<"json">> \o lines[n], f |-> path]>>
          ELSE <<>>) \o GrepFile(path, lines, pattern, n + 1)

RECURSIVE GrepWalk(_, _, _, _, _)
GrepWalk(files, top, pattern, glob, i) ==
    IF i > Len(PathOrder) THEN <<>>
    ELSE LET q == PathOrder[i]
             searched == /\ q \in DOMAIN files
                         /\ (q = top \/ IsPrefix(top, q))
                         /\ (glob = "" \/ GlobMatch(q[Len(q)], glob))
         IN  (IF searched THEN GrepFile(q, SplitLF(files[q]), pattern, 1) ELSE <<>>)
             \o GrepWalk(files, top, pattern, glob, i + 1)

\* grep -rHnF: its output and its exit status, 0 with lines selected, 1 with
\* none, 2 when the search path cannot be read
grepRun(p, files) ==
    LET top == Resolve(p.path)
    IN  IF ~Exists(files, top) THEN [stdout |-> <<>>, returncode |-> 2]
        ELSE LET out == GrepWalk(files, top, p.pattern, p.glob_pattern, 1)
             IN  [stdout |-> out, returncode |-> IF out = <<>> THEN 1 ELSE 0]

\* mutant: every non-zero exit status of grep is an error
grepScript_strict(p, files) ==
    LET result == grepRun(p, files)
    IN  IF result.returncode > 0
        THEN Exited(files, result.returncode,
                    Diag(<<"Grep error", "No such file or directory">>))
        ELSE Ran(files, result.stdout)

Quote == "'"

\* the characters of a glob string (the globs here are one character long)
Chars(g) == IF g = "" THEN <<>> ELSE <<g>>

\* A template holds a parameter between two single quotes, '{name}', and
\* pyfmt.Fmt puts the value there as it is. The literal is closed by the
\* template's own quote unless the value holds a quote; a base64 text never
\* does. Values here hold at most one quote, which leaves the script with an
\* odd number of quotes on the line.
LiteralClosed(v) == IF Len(v) > 0 /\ v[1] = "b64" THEN TRUE ELSE Quote \notin Range(v)

grepScript(p, files) ==
    IF ~(LiteralClosed(p.pattern) /\ LiteralClosed(p.path)
           /\ LiteralClosed(Chars(p.glob_pattern)))
    THEN Raised(files, "SyntaxError")
    ELSE LET result == grepRun(p, files)
         IN  IF result.returncode > 1
             THEN Exited(files, result.returncode,
                         Diag(<<"Grep error", "No such file or directory">>))
             ELSE Ran(files, result.stdout)

globScript(p, files) ==
    LET d == Resolve(B64Decode(p.path_b64))
        pattern == B64Decode(p.pattern_b64)
    IN  IF IsFile(files, d) THEN Raised(files, "NotADirectoryError")
        ELSE IF ~IsDir(files, d) THEN Raised(files, "FileNotFoundError")
        ELSE LET names == SortedNames({n \in ChildNames(files, d) : GlobMatch(n, pattern)}, 1)
             IN  Ran(files, [i \in 1..Len(names) |->
                                JsonFileInfo(names[i], IsDir(files, Append(d, names[i])))])

\* what a shell command does: its stdout, its stderr and its exit status
CommandRun(cmd) ==
    CASE cmd = "echo hello" ->
           [stdout |-> Diag(<<"hello">>), stderr |-> <<>>, returncode |-> 0]
      [] cmd = "exit 3" ->
           [stdout |-> <<>>, stderr |-> <<>>, returncode |-> 3]
      [] cmd = "echo warn >&2" ->
           [stdout |-> <<>>, stderr |-> <<"warn">>, returncode |-> 0]
      [] cmd = "ls /nonexistent" ->
           [stdout |-> <<>>, stderr |-> <<"No such file or directory">>, returncode |-> 2]
      [] cmd = "printf 'a\\r\\nb'" ->
           [stdout |-> Diag(<<"a", "CR", "LF", "b">>), stderr |-> <<>>, returncode |-> 0]

\* mutant: a non-zero exit status is an error as well
executeScript_byStatus(p, files) ==
    LET result == CommandRun(B64Decode(p.command_b64))
    IN  IF result.stderr # <<>> \/ result.returncode # 0
        THEN Exited(files, IF result.returncode # 0 THEN result.returncode ELSE 1,
                    Diag(<<"Error executing command">> \o result.stderr))
        ELSE Ran(files, [i \in 1..Len(result.stdout) |->
                           [result.stdout[i] EXCEPT !.s = UniversalNewlines(@)]])

\* subprocess.run(..., text=True) hands the script stdout in text mode
executeScript(p, files) ==
    LET result == CommandRun(B64Decode(p.command_b64))
    IN  IF result.stderr # <<>>
        THEN Exited(files, IF result.returncode # 0 THEN result.returncode ELSE 1,
                    Diag(<<"Error executing command">> \o result.stderr))
        ELSE Ran(files, [i \in 1..Len(result.stdout) |->
                           [result.stdout[i] EXCEPT !.s = UniversalNewlines(@)]])

RunScript(script, files) ==
    CASE script.tpl = "read" -> readScript(script.p, files)
      [] script.tpl = "ls" -> lsInfoScript(script.p, files)
      [] script.tpl = "write" -> writeScript(script.p, files)
      [] script.tpl = "edit" -> editScript(script.p, files)
      [] script.tpl = "grep" -> grepScript(script.p, files)
      [] script.tpl = "glob" -> globScript(script.p, files)
      [] script.tpl = "execute" -> executeScript(script.p, files)

-----------------------------------------------------------------------------
(* The result envelope: result{success, data.outputs[]{text, ename, evalue}} *)

Output(type, text, ename, evalue) ==
    [output_type |-> type, text |-> text, ename |-> ename, evalue |-> evalue]

Result(success, outputs) == [success |-> success, outputs |-> outputs]

\* the zero value of result, what "null" and "{}" decode to
ZeroResult == Result(FALSE, <<>>)

\* the envelope the sandbox service reports for a run: printed text first,
\* then the error that ended the run
ServerEnvelope(run) ==
    LET stream == IF run.out = <<>> THEN <<>>
                  ELSE <<Output("stream", run.out, "", "")>>
    IN  IF run.status = "ok" \/ (run.status = "exit" /\ run.code = 0)
        THEN Result(TRUE, stream)
        ELSE IF run.status = "exit"
        THEN Result(FALSE, stream \o <<Output("error", <<>>, "SystemExit", "code")>>)
        ELSE Result(FALSE, stream \o <<Output("error", <<>>, run.ename, "evalue")>>)

-----------------------------------------------------------------------------
(* RPC transport: execute and invokeTool *)

python3KernelName == "python3"

runCodeOperationType == "RunCode"

\* mutant: the request leaves the session out
invokeToolRequest_noSession(s, command) ==
    [ToolID |-> s.toolID,
     SessionID |-> "",
     UserSessionID |-> "",
     OperationPayload |-> [code |-> command, kernelName |-> python3KernelName],
     OperationType |-> runCodeOperationType,
     Ttl |-> NilInt]

\* execute up to the call of invokeTool: the operation payload and the request
invokeToolRequest(s, command) ==
    [ToolID |-> s.toolID,
     SessionID |-> s.sessionID,
     UserSessionID |-> s.userSessionID,
     OperationPayload |->
        IF s.executionTimeout <= 0
        THEN [code |-> command, kernelName |-> python3KernelName]
        ELSE [code |-> command, timeout |-> s.executionTimeout,
              kernelName |-> python3KernelName],
     OperationType |-> runCodeOperationType,
     Ttl |-> IF s.sessionTTL > 0 THEN IntPtr(s.sessionTTL) ELSE NilInt]

\* the JSON tags of the fields of invokeToolRequest: none has omitempty
invokeToolRequestTags ==
    {[field |-> "ToolID", key |-> "ToolId", omitempty |-> FALSE],
     [field |-> "SessionID", key |-> "SessionId", omitempty |-> FALSE],
     [field |-> "UserSessionID", key |-> "UserSessionId", omitempty |-> FALSE],
     [field |-> "OperationPayload", key |-> "OperationPayload", omitempty |-> FALSE],
     [field |-> "OperationType", key |-> "OperationType", omitempty |-> FALSE],
     [field |-> "Ttl", key |-> "Ttl", omitempty |-> FALSE]}

\* the zero value of a field: the empty string, or the nil pointer of Ttl
IsEmptyValue(field, v) == IF field = "Ttl" THEN v.nil ELSE v = ""

\* sonic.Marshal of an invokeToolRequest: the JSON object, a function of its
\* keys. A field is left out only if its tag has omitempty and its value is
\* the zero value; a nil pointer kept is the JSON null, held here as NilInt.
\* OperationPayload is the string marshalled from the payload map, whose
\* keys are the keys of the map.
Marshal(req) ==
    LET kept == {t \in invokeToolRequestTags :
                    ~(t.omitempty /\ IsEmptyValue(t.field, req[t.field]))}
        tagOf(k) == CHOOSE t \in kept : t.key = k
    IN  [k \in {t.key : t \in kept} |-> req[tagOf(k).field]]

service == "agentkit"

\* the host of the request address, which http.NewRequestWithContext takes
\* from the base URL
URLHost(base) ==
    CASE base = regionOfBeijingBaseURL -> "agentkit.cn-beijing.volces.com"
      [] base = regionOfShangHaiBaseURL -> "agentkit.cn-shanghai.volces.com"
      [] OTHER -> ""

NoHeader == [h \in {} |-> ""]

\* the HTTP request invokeTool builds, before it is signed; json is the body
\* as marshalled, query is queries.Encode() as its sorted pairs
HTTPRequest(s, body) ==
    [method |-> "POST", base |-> s.baseURL, pathname |-> "/",
     query |-> <<"Action=InvokeTool", "Version=2025-10-30">>, body |-> body,
     json |-> Marshal(body), host |-> URLHost(s.baseURL), header |-> NoHeader]

\* instants time.Now() can give, in UTC: the day and the time of day
Times ==
    {[day |-> "20251030", clock |-> "T235959Z"],
     [day |-> "20251031", clock |-> "T000000Z"]}

Epoch == [day |-> "20251030", clock |-> "T235959Z"]

\* SHA-256, HMAC-SHA256 and the hexadecimal encoding are kept symbolic: a
\* digest is its input under a tag, so different inputs give different
\* digests and equal inputs equal ones
hashSHA256(data) == <<"sha256", data>>

hmacSHA256(key, content) == <<"hmac", key, content>>

hexEncodeToString(b) == <<"hex", b>>

getSignedKey(secretKey, date, region, svc) ==
    LET kDate == hmacSHA256(secretKey, date)
        kRegion == hmacSHA256(kDate, region)
        kService == hmacSHA256(kRegion, svc)
    IN  hmacSHA256(kService, "request")

signedHeaders == <<"host", "x-date", "x-content-sha256", "content-type">>

\* request.Header.Get: header names are matched in their canonical form
CanonicalHeaderKey(name) ==
    CASE name = "x-date" -> "X-Date"
      [] name = "x-content-sha256" -> "X-Content-Sha256"
      [] name = "content-type" -> "Content-Type"
      [] OTHER -> name

\* the headers signRequest sets from the time, the hash of signed (the bytes
\* it is given as the body) and the keys of s. Strings joined by a separator
\* are kept as the tuple of their parts.
SignedHeader(s, request, signed, now) ==
    LET date == <<now.day, now.clock>>
        authDate == date[1]
        payload == hexEncodeToString(hashSHA256(signed))
        set == [h \in {"X-Date", "X-Content-Sha256", "Content-Type"} |->
                  CASE h = "X-Date" -> date
                    [] h = "X-Content-Sha256" -> payload
                    [] OTHER -> "application/json"]
        queryString == request.query
        headerList == [i \in 1..Len(signedHeaders) |->
                         IF signedHeaders[i] = "host"
                         THEN <<signedHeaders[i], request.host>>
                         ELSE <<signedHeaders[i], set[CanonicalHeaderKey(signedHeaders[i])]>>]
        canonicalString ==
            <<request.method, "/", queryString, headerList, signedHeaders, payload>>
        hashedCanonicalString == hexEncodeToString(hashSHA256(canonicalString))
        credentialScope == <<authDate, s.region, service, "request">>
        signString == <<"HMAC-SHA256", date, credentialScope, hashedCanonicalString>>
        signedKey == getSignedKey(s.secretAccessKey, authDate, s.region, service)
        signature == hexEncodeToString(hmacSHA256(signedKey, signString))
        authorization ==
            [algorithm |-> "HMAC-SHA256",
             Credential |-> <<s.accessKeyID, credentialScope>>,
             SignedHeaders |-> signedHeaders,
             Signature |-> signature]
    IN  [h \in {"X-Date", "X-Content-Sha256", "Content-Type", "Authorization"} |->
           IF h = "Authorization" THEN authorization ELSE set[h]]

\* mutant: the hash and the signature are those of an empty body
signRequest_emptyBody(s, request, now) ==
    [request EXCEPT !.header = SignedHeader(s, request, <<>>, now)]

\* signRequest(request, queries, body) at the instant now; invokeTool passes
\* the bytes it sends as the body
signRequest(s, request, now) ==
    [request EXCEPT !.header = SignedHeader(s, request, request.json, now)]

NoWire == [none |-> TRUE]

\* What the HTTP layer hands back: kind "doErr" (httpClient.Do failed),
\* "readErr" (reading the body failed) or "http" with a status and a body.
\* The body is abstracted by how its two JSON layers decode: outer is "ok" or
\* "bad"; inner is "json" (the result string holds result), "null" (it holds
\* null or {}), "bad" (not JSON) or "empty" (missing or empty string).
Resp(k, status, outer, inner, result) ==
    [kind |-> k, status |-> status, outer |-> outer, inner |-> inner, result |-> result]

NoResp == Resp("none", 0, "bad", "empty", ZeroResult)

OK200(result) == Resp("http", 200, "ok", "json", result)

\* mutant: the status code is not looked at
invokeTool_anyStatus(r) ==
    IF r.kind = "doErr" THEN Err(<<"do request err">>, 0, <<>>)
    ELSE IF r.kind = "readErr" THEN Err(<<"failed to read response body">>, 0, <<>>)
    ELSE IF r.kind = "doCanceled" THEN Err(<<"do request err", "context canceled">>, 0, <<>>)
    ELSE IF r.kind = "readCanceled"
    THEN Err(<<"failed to read response body", "context canceled">>, 0, <<>>)
    ELSE NilErr

\* mutant: the request is built without the caller's context, so that a
\* cancellation is not seen and the response is awaited and used
invokeTool_noContext(r) ==
    IF r.kind = "doErr" THEN Err(<<"do request err">>, 0, <<>>)
    ELSE IF r.kind = "readErr" THEN Err(<<"failed to read response body">>, 0, <<>>)
    ELSE IF r.status # 200 THEN Err(<<"request failed with status code">>, r.status, <<>>)
    ELSE NilErr

\* kinds "doCanceled" and "readCanceled": the caller's context was cancelled
\* while httpClient.Do, or io.ReadAll of the body, was waiting; the other
\* fields then describe the response that was on its way
invokeTool(r) ==
    IF r.kind = "doErr" THEN Err(<<"do request err">>, 0, <<>>)
    ELSE IF r.kind = "readErr" THEN Err(<<"failed to read response body">>, 0, <<>>)
    ELSE IF r.kind = "doCanceled" THEN Err(<<"do request err", "context canceled">>, 0, <<>>)
    ELSE IF r.kind = "readCanceled"
    THEN Err(<<"failed to read response body", "context canceled">>, 0, <<>>)
    ELSE IF r.status # 200 THEN Err(<<"request failed with status code">>, r.status, <<>>)
    ELSE NilErr

Executed(text, exitCode, err) == [text |-> text, exitCode |-> exitCode, err |-> err]

NotExecuted == Executed(<<>>, NilInt, NilErr)

\* mutant: on failure the error name is preferred to the text
execute_enameFirst(r) ==
    LET e == invokeTool(r)
    IN  IF ~e.nil THEN Executed(<<>>, NilInt, Wrap("failed to invoke tool", e))
        ELSE IF r.outer = "bad"
        THEN Executed(<<>>, NilInt, Err(<<"failed to unmarshal response">>, 0, <<>>))
        ELSE IF r.inner \in {"bad", "empty"}
        THEN Executed(<<>>, NilInt, Err(<<"failed to unmarshal result data">>, 0, <<>>))
        ELSE LET result == IF r.inner = "null" THEN ZeroResult ELSE r.result
                 outputs == result.outputs
             IN  IF ~result.success
                 THEN Executed(IF Len(outputs) > 0
                               THEN IF outputs[1].ename # ""
                                    THEN Diag(<<outputs[1].ename, outputs[1].evalue>>)
                                    ELSE outputs[1].text
                               ELSE <<>>,
                               IntPtr(-1), NilErr)
                 ELSE Executed(IF Len(outputs) > 0 THEN outputs[1].text ELSE <<>>,
                               IntPtr(0), NilErr)

\* execute from the return of invokeTool on: decode both layers, map the result
execute(r) ==
    LET e == invokeTool(r)
    IN  IF ~e.nil THEN Executed(<<>>, NilInt, Wrap("failed to invoke tool", e))
        ELSE IF r.outer = "bad"
        THEN Executed(<<>>, NilInt, Err(<<"failed to unmarshal response">>, 0, <<>>))
        ELSE IF r.inner \in {"bad", "empty"}
        THEN Executed(<<>>, NilInt, Err(<<"failed to unmarshal result data">>, 0, <<>>))
        ELSE LET result == IF r.inner = "null" THEN ZeroResult ELSE r.result
                 outputs == result.outputs
             IN  IF ~result.success
                 THEN Executed(IF Len(outputs) > 0
                               THEN IF outputs[1].text # <<>> THEN outputs[1].text
                                    ELSE IF outputs[1].ename # ""
                                         THEN Diag(<<outputs[1].ename, outputs[1].evalue>>)
                                         ELSE <<>>
                               ELSE <<>>,
                               IntPtr(-1), NilErr)
                 ELSE Executed(IF Len(outputs) > 0 THEN outputs[1].text ELSE <<>>,
                               IntPtr(0), NilErr)

-----------------------------------------------------------------------------
(* Facade, second half: map what execute returned to the call's result.    *)
(* A result is [err, out, list, exec]: the error, the text returned (Read, *)
(* Execute), the records returned (LsInfo, GlobInfo, GrepRaw) and, for the *)
(* record, what execute itself returned.                                   *)

Returned(err, out, list, x) == [err |-> err, out |-> out, list |-> list, exec |-> x]

NoRet == Returned(NilErr, <<>>, <<>>, NotExecuted)

\* json.Unmarshal of each line into FileInfo, skipping the lines that fail
RECURSIVE FileInfos(_)
FileInfos(lines) ==
    IF lines = <<>> THEN <<>>
    ELSE LET l == Head(lines)
         IN  (IF l.s # <<>> /\ l.s[1] = "json"
              THEN <<[Path |-> l.s[2], IsDir |-> l.s[3] = "true"]>>
              ELSE <<>>) \o FileInfos(Tail(lines))

\* json.Unmarshal of each line into GrepMatch, logging and skipping failures
RECURSIVE GrepMatches(_)
GrepMatches(lines) ==
    IF lines = <<>> THEN <<>>
    ELSE LET l == Head(lines)
         IN  (IF l.s # <<>> /\ l.s[1] = "json"
              THEN <<[Path |-> l.f, Line |-> l.num, Content |-> Tail(l.s)]>>
              ELSE <<>>) \o GrepMatches(Tail(lines))

\* mutant: one line that cannot be decoded fails the call
LsInfoReturn_strict(x) ==
    IF ~x.err.nil
    THEN Returned(Wrap("failed to execute ls script", x.err), <<>>, <<>>, x)
    ELSE IF ~x.exitCode.nil /\ x.exitCode.v # 0
    THEN Returned(Err(<<"ls script exited with non-zero code">>, x.exitCode.v, x.text),
                  <<>>, <<>>, x)
    ELSE IF Len(FileInfos(x.text)) < Len(x.text)
    THEN Returned(Err(<<"failed to unmarshal line">>, 0, <<>>), <<>>, <<>>, x)
    ELSE Returned(NilErr, <<>>, FileInfos(x.text), x)

LsInfoReturn(x) ==
    IF ~x.err.nil
    THEN Returned(Wrap("failed to execute ls script", x.err), <<>>, <<>>, x)
    ELSE IF ~x.exitCode.nil /\ x.exitCode.v # 0
    THEN Returned(Err(<<"ls script exited with non-zero code">>, x.exitCode.v, x.text),
                  <<>>, <<>>, x)
    ELSE Returned(NilErr, <<>>, FileInfos(x.text), x)

ReadReturn(x) ==
    IF ~x.err.nil
    THEN Returned(Wrap("failed to execute read script", x.err), <<>>, <<>>, x)
    ELSE IF ~x.exitCode.nil /\ x.exitCode.v # 0
    THEN Returned(Err(<<"read script exited with non-zero code">>, x.exitCode.v, x.text),
                  <<>>, <<>>, x)
    ELSE Returned(NilErr, x.text, <<>>, x)

GrepRawReturn(x) ==
    IF ~x.err.nil
    THEN Returned(Wrap("failed to execute grep script", x.err), <<>>, <<>>, x)
    ELSE IF ~x.exitCode.nil /\ x.exitCode.v # 0
    THEN Returned(Err(<<"grep script exited with code">>, x.exitCode.v, x.text),
                  <<>>, <<>>, x)
    ELSE Returned(NilErr, <<>>, GrepMatches(x.text), x)

GlobInfoReturn(x) ==
    IF ~x.err.nil
    THEN Returned(Wrap("failed to execute glob script", x.err), <<>>, <<>>, x)
    ELSE IF ~x.exitCode.nil /\ x.exitCode.v # 0
    THEN Returned(Err(<<"glob script exited with non-zero code">>, x.exitCode.v, x.text),
                  <<>>, <<>>, x)
    ELSE Returned(NilErr, <<>>, FileInfos(x.text), x)

\* mutant: the exit code of the write script is not looked at
WriteReturn_ignoreExit(x) ==
    IF ~x.err.nil
    THEN Returned(Wrap("failed to execute write script", x.err), <<>>, <<>>, x)
    ELSE Returned(NilErr, <<>>, <<>>, x)

WriteReturn(x) ==
    IF ~x.err.nil
    THEN Returned(Wrap("failed to execute write script", x.err), <<>>, <<>>, x)
    ELSE IF ~x.exitCode.nil /\ x.exitCode.v # 0
    THEN Returned(Err(<<"write script exited with non-zero code">>, x.exitCode.v, x.text),
                  <<>>, <<>>, x)
    ELSE Returned(NilErr, <<>>, <<>>, x)

EditReturn(x) ==
    IF ~x.err.nil
    THEN Returned(Wrap("failed to execute edit script", x.err), <<>>, <<>>, x)
    ELSE IF ~x.exitCode.nil /\ x.exitCode.v # 0
    THEN Returned(Err(<<"edit script exited with non-zero code">>, x.exitCode.v, x.text),
                  <<>>, <<>>, x)
    ELSE Returned(NilErr, <<>>, <<>>, x)

ExecuteReturn(x) ==
    IF ~x.err.nil
    THEN Returned(Wrap("failed to execute command script", x.err), <<>>, <<>>, x)
    ELSE IF ~x.exitCode.nil /\ x.exitCode.v # 0
    THEN Returned(Err(<<"command exited with non-zero code">>, x.exitCode.v, x.text),
                  <<>>, <<>>, x)
    ELSE Returned(NilErr, x.text, <<>>, x)

Return(op, x) ==
    CASE op = "ls" -> LsInfoReturn(x)
      [] op = "read" -> ReadReturn(x)
      [] op = "grep" -> GrepRawReturn(x)
      [] op = "glob" -> GlobInfoReturn(x)
      [] op = "write" -> WriteReturn(x)
      [] op = "edit" -> EditReturn(x)
      [] op = "execute" -> ExecuteReturn(x)

-----------------------------------------------------------------------------
(* The local backend (local.go): each operator yields [files, ret] *)

Local(files, err, out) == [files |-> files, ret |-> Returned(err, out, <<>>, NotExecuted)]

LocalRead(req, files) ==
    LET path == Clean(req.path)
        offset == IF req.offset < 0 THEN 0 ELSE req.offset
        limit == IF req.limit <= 0 THEN DefaultLimit ELSE req.limit
    IN  IF ~IsAbs(path)
        THEN Local(files, Err(<<"path must be an absolute path">>, 0, <<>>), <<>>)
        ELSE IF ~Exists(files, path)
        THEN Local(files, Err(<<"file not found">>, 0, <<>>), <<>>)
        ELSE IF IsDir(files, path)
        THEN Local(files, Err(<<"error reading file">>, 0, <<>>), <<>>)
        ELSE IF files[path] = <<>> THEN Local(files, NilErr, <<>>)
        ELSE LET lines == GoLines(files[path])
                 last == Min(Len(lines), offset + limit)
             IN  Local(files, NilErr,
                       [i \in 1..Max(last - offset, 0) |-> Line(offset + i, lines[offset + i])])

\* Write up to and including os.OpenFile(O_WRONLY|O_CREATE|O_EXCL): the file
\* is created empty, atomically with the existence check
LocalWriteOpen(req, files) ==
    LET path == Clean(req.path)
    IN  IF ~IsAbs(req.path)
        THEN Local(files, Err(<<"path must be an absolute path">>, 0, <<>>), <<>>)
        ELSE IF ParentBlocked(files, path)
        THEN Local(files, Err(<<"failed to create parent directory">>, 0, <<>>), <<>>)
        ELSE IF Exists(files, path)
        THEN Local(files, Err(<<"file", "already exists">>, 0, <<>>), <<>>)
        ELSE Local(PutFile(files, path, <<>>), NilErr, <<>>)

\* Write from file.Write on
LocalWriteData(req, files) == Local(PutFile(files, Clean(req.path), req.content), NilErr, <<>>)

LocalEdit(req, files) ==
    LET path == Clean(req.path)
    IN  IF ~IsAbs(path)
        THEN Local(files, Err(<<"path must be an absolute path">>, 0, <<>>), <<>>)
        ELSE IF req.old = <<>>
        THEN Local(files, Err(<<"old string is required">>, 0, <<>>), <<>>)
        ELSE IF req.old = req.new
        THEN Local(files, Err(<<"new string must be different from old string">>, 0, <<>>),
                   <<>>)
        ELSE IF ~IsFile(files, path)
        THEN Local(files, Err(<<"failed to read file">>, 0, <<>>), <<>>)
        ELSE LET text == files[path]
                 count == Count(text, req.old)
             IN  IF count = 0
                 THEN Local(files, Err(<<"string not found in file">>, 0, <<>>), <<>>)
                 ELSE IF count > 1 /\ ~req.all
                 THEN Local(files,
                            Err(<<"string", "appears multiple times",
                                  "Use replace_all=True to replace all occurrences">>, 0, <<>>),
                            <<>>)
                 ELSE Local(PutFile(files, path,
                                    IF req.all THEN Replace(text, req.old, req.new, -1)
                                    ELSE Replace(text, req.old, req.new, 1)),
                            NilErr, <<>>)

\* a local call that returns records
LocalList(files, err, list) == [files |-> files, ret |-> Returned(err, <<>>, list, NotExecuted)]

\* the lines of one file that contain the pattern, as GrepMatch records
RECURSIVE LocalGrepFile(_, _, _, _)
LocalGrepFile(path, lines, pattern, n) ==
    IF n > Len(lines) THEN <<>>
    ELSE (IF Contains(lines[n], pattern)
          THEN <<[Path |-> path, Line |-> n, Content |-> lines[n]]>>
          ELSE <<>>) \o LocalGrepFile(path, lines, pattern, n + 1)

\* filepath.WalkDir from top, in lexical order, over the files the glob admits
RECURSIVE LocalGrepWalk(_, _, _, _, _)
LocalGrepWalk(files, top, pattern, glob, i) ==
    IF i > Len(PathOrder) THEN <<>>
    ELSE LET q == PathOrder[i]
             searched == /\ q \in DOMAIN files
                         /\ (q = top \/ IsPrefix(top, q))
                         /\ (glob = "" \/ GlobMatch(q[Len(q)], glob))
         IN  (IF searched THEN LocalGrepFile(q, GoLines(files[q]), pattern, 1) ELSE <<>>)
             \o LocalGrepWalk(files, top, pattern, glob, i + 1)

LocalGrepRaw(req, files) ==
    LET top == Resolve(Clean(req.path))
    IN  IF ~Exists(files, top)
        THEN LocalList(files, Err(<<"error during grep operation">>, 0, <<>>), <<>>)
        ELSE LocalList(files, NilErr, LocalGrepWalk(files, top, req.pattern, req.glob, 1))

LocalLsInfo(req, files) ==
    LET path == Clean(IF req.path = <<>> THEN Root ELSE req.path)
    IN  IF ~IsAbs(path)
        THEN LocalList(files, Err(<<"path must be an absolute path">>, 0, <<>>), <<>>)
        ELSE IF IsFile(files, path) \/ ParentBlocked(files, path)    \* ENOTDIR
        THEN LocalList(files, Err(<<"failed to read directory">>, 0, <<>>), <<>>)
        ELSE IF ~IsDir(files, path) THEN LocalList(files, NilErr, <<>>)
        ELSE LET names == SortedNames(ChildNames(files, path), 1)
             IN  LocalList(files, NilErr,
                           [i \in 1..Len(names) |-> [Path |-> names[i], IsDir |-> FALSE]])

\* the local operations that are one step each
LocalOp(req, files) ==
    CASE req.op = "read" -> LocalRead(req, files)
      [] req.op = "edit" -> LocalEdit(req, files)
      [] req.op = "grep" -> LocalGrepRaw(req, files)
      [] req.op = "ls" -> LocalLsInfo(req, files)

-----------------------------------------------------------------------------
(* The Elasticsearch indexer (components/indexer/es9/indexer.go): Store    *)
(* and bulkAdd, the embedder and the bulk indexer they call                *)

DefaultBatchSize == 5

\* values of document fields: a string, a number, or a vector. A vector
\* remembers the EmbedStrings call that returned it and the text it is for.
Str(s) == [t |-> "string", s |-> s, call |-> 0]

Num(s) == [t |-> "int", s |-> s, call |-> 0]

Vector(n, text) == [t |-> "vector", s |-> text, call |-> n]

\* FieldValue; Stringify is "nil", "ok" (it gives the value as text), or "err"
FieldValue(value, embedKey, stringify) ==
    [Value |-> value, EmbedKey |-> embedKey, Stringify |-> stringify]

mockErr == Err(<<"test err">>, 0, <<>>)

\* config.DocumentToFields: the mappings of the tests and the mappings that
\* bulkAdd rejects, picked by the document's shape
DocumentToFields(doc) ==
    LET content == FieldValue(Str(doc.Content), "", "nil")
    IN  CASE doc.shape = "plain" ->
               [err |-> NilErr, fields |-> ("k0" :> content)]
          [] doc.shape = "one" ->
               [err |-> NilErr,
                fields |-> ("k0" :> content)
                           @@ ("k1" :> FieldValue(Str(doc.Content), "vk1", "nil"))]
          [] doc.shape = "two" ->
               [err |-> NilErr,
                fields |-> ("k0" :> content)
                           @@ ("k1" :> FieldValue(Str(doc.Content), "vk1", "nil"))
                           @@ ("k2" :> FieldValue(Num("222"), "vk2", "ok"))]
          [] doc.shape = "three" ->
               [err |-> NilErr,
                fields |-> ("k1" :> FieldValue(Str("v1"), "vk1", "nil"))
                           @@ ("k2" :> FieldValue(Str("v2"), "vk2", "nil"))
                           @@ ("k3" :> FieldValue(Str("v3"), "vk3", "nil"))]
          [] doc.shape = "sameEmbedKey" ->
               [err |-> NilErr,
                fields |-> ("k1" :> FieldValue(Str("v1"), "vk", "nil"))
                           @@ ("k2" :> FieldValue(Str("v2"), "vk", "nil"))]
          [] doc.shape = "originKey" ->
               [err |-> NilErr,
                fields |-> ("k0" :> content)
                           @@ ("k1" :> FieldValue(Str("v1"), "k0", "nil"))]
          [] doc.shape = "notString" ->
               [err |-> NilErr, fields |-> ("k1" :> FieldValue(Num("123"), "vk1", "nil"))]
          [] doc.shape = "stringifyErr" ->
               [err |-> NilErr, fields |-> ("k1" :> FieldValue(Num("123"), "vk1", "err"))]
          [] OTHER ->
               [err |-> mockErr, fields |-> <<>>]

\* emb.EmbedStrings, the n-th call: an error, one vector too few, or a vector
\* for every text
EmbedStrings(fault, n, texts) ==
    IF fault = "embedErr" THEN [err |-> mockErr, vectors |-> <<>>]
    ELSE IF fault = "embedShort"
    THEN [err |-> NilErr,
          vectors |-> [j \in 1..(Len(texts) - 1) |-> Vector(n, texts[j])]]
    ELSE [err |-> NilErr, vectors |-> [j \in 1..Len(texts) |-> Vector(n, texts[j])]]

\* the bulk item of one tuple: its fields, each embed key set to its vector
BulkIndexerItem_firstVector(t, vectors) ==
    [Action |-> "index", DocumentID |-> t.id,
     Body |-> [k \in DOMAIN t.key2Idx |-> vectors[1]] @@ t.fields]

BulkIndexerItem(t, vectors) ==
    [Action |-> "index", DocumentID |-> t.id,
     Body |-> [k \in DOMAIN t.key2Idx |-> vectors[t.key2Idx[k]]] @@ t.fields]

\* embAndAdd: embed the collected texts in one call, add one bulk item per
\* collected tuple, and empty both lists.
\* b: [BatchSize, fault, tuples, texts, calls, items, err]; calls lists the
\* texts of every EmbedStrings call made, items the bulk items added
embAndAdd(b) ==
    LET embed == EmbedStrings(b.fault, Len(b.calls) + 1, b.texts)
        called == [b EXCEPT !.calls = Append(@, b.texts)]
    IN  IF Len(b.texts) > 0 /\ b.fault = "embedNil"
        THEN [b EXCEPT !.err = Err(<<"[bulkAdd] embedding method not provided">>, 0, <<>>)]
        ELSE IF Len(b.texts) > 0 /\ ~embed.err.nil
        THEN [called EXCEPT !.err = Wrap("[bulkAdd] embedding failed", embed.err)]
        ELSE IF Len(b.texts) > 0 /\ Len(embed.vectors) # Len(b.texts)
        THEN [called EXCEPT !.err = Err(<<"[bulkAdd] invalid vector length">>,
                                        Len(b.texts), <<>>)]
        ELSE LET after == IF Len(b.texts) > 0 THEN called ELSE b
             IN  IF b.fault = "addErr" /\ b.tuples # <<>>
                 THEN [after EXCEPT !.err = mockErr]
                 ELSE [after EXCEPT
                         !.items = @ \o [j \in 1..Len(b.tuples) |->
                                           BulkIndexerItem(b.tuples[j], embed.vectors)],
                         !.tuples = <<>>, !.texts = <<>>]

\* the text to embed for a field: Stringify(Value), or Value asserted a string
FieldText(v) ==
    IF v.Stringify = "ok" THEN [err |-> NilErr, text |-> v.Value.s]
    ELSE IF v.Stringify = "err" THEN [err |-> mockErr, text |-> ""]
    ELSE IF v.Value.t = "string" THEN [err |-> NilErr, text |-> v.Value.s]
    ELSE [err |-> Err(<<"[bulkAdd] assert value as string failed">>, 0, <<>>),
          text |-> ""]

\* the second loop over a document's fields, in the order the map yields its
\* keys, from the j-th key on: r holds key2Idx, texts and err so far.
\* key2Idx holds positions in texts counted from 1 (from 0 in the code).
RECURSIVE CollectTexts(_, _, _, _)
CollectTexts(fields, order, j, r) ==
    IF j > Len(order) \/ ~r.err.nil THEN r
    ELSE LET k == order[j]
             v == fields[k]
             got == FieldText(v)
         IN  IF v.EmbedKey = "" THEN CollectTexts(fields, order, j + 1, r)
             ELSE IF v.EmbedKey \in DOMAIN fields
             THEN [r EXCEPT !.err = Err(<<"[bulkAdd] duplicate key for origin key">>,
                                        0, <<>>)]
             ELSE IF v.EmbedKey \in DOMAIN r.key2Idx
             THEN [r EXCEPT !.err = Err(<<"[bulkAdd] duplicate key from embed_key">>,
                                        0, <<>>)]
             ELSE IF ~got.err.nil THEN [r EXCEPT !.err = got.err]
             ELSE CollectTexts(fields, order, j + 1,
                               [r EXCEPT !.key2Idx = (v.EmbedKey :> (Len(r.texts) + 1)) @@ @,
                                         !.texts = Append(@, got.text)])

\* the collected texts and this document's would not fit one batch
NeedsFlush_never(b, embSize) == FALSE

NeedsFlush(b, embSize) == Len(b.texts) + embSize > b.BatchSize

\* one round of bulkAdd's loop over the documents
AddDocument(b, doc, order) ==
    LET mapped == DocumentToFields(doc)
        fields == mapped.fields
        rawFields == [k \in DOMAIN fields |-> fields[k].Value]
        embSize == Cardinality({k \in DOMAIN fields : fields[k].EmbedKey # ""})
        flushed == IF NeedsFlush(b, embSize) THEN embAndAdd(b) ELSE b
        r == CollectTexts(fields, order, 1,
                          [key2Idx |-> <<>>, texts |-> flushed.texts, err |-> NilErr])
    IN  IF ~mapped.err.nil
        THEN [b EXCEPT !.err = Wrap("[bulkAdd] FieldMapping failed", mapped.err)]
        ELSE IF embSize > b.BatchSize
        THEN [b EXCEPT
                !.err = Err(<<"[bulkAdd] needEmbeddingFields length over batch size">>,
                            b.BatchSize, <<>>)]
        ELSE IF ~flushed.err.nil THEN flushed
        ELSE IF ~r.err.nil THEN [flushed EXCEPT !.err = r.err]
        ELSE [flushed EXCEPT
                !.texts = r.texts,
                !.tuples = Append(@, [id |-> doc.ID, fields |-> rawFields,
                                      key2Idx |-> r.key2Idx])]

\* the end of bulkAdd: the last embAndAdd, then bi.Close
CloseBulk(b) ==
    LET last == IF Len(b.tuples) > 0 THEN embAndAdd(b) ELSE b
    IN  IF ~last.err.nil THEN last
        ELSE IF b.fault = "closeErr" THEN [last EXCEPT !.err = mockErr]
        ELSE last

\* iter(docs, func(t) { return t.ID })
iter(docs) == [j \in 1..Len(docs) |-> docs[j].ID]

\* the indexer before NewIndexer
\*   pc  "new", "failed" (NewIndexer returned an error), "ready", "loop"
\*       (bulkAdd is inside its loop, about to handle docs[idx]), "done"
NoIndexing ==
    [pc |-> "new", BatchSize |-> 0, fault |-> "none", docs |-> <<>>, idx |-> 0,
     tuples |-> <<>>, texts |-> <<>>, calls |-> <<>>, items |-> <<>>,
     err |-> NilErr, ids |-> <<>>]

-----------------------------------------------------------------------------
(* ExecuteStreaming of the local backend (local.go): the command, the      *)
(* producer goroutine, the goroutine that collects stderr, the pipe to the *)
(* reader, and the reader's receive loop                                   *)

\* a stretch of stdout as long as the scanner's buffer with no newline in it
TooLong == "bufio.MaxScanTokenSize"

\* what a command writes and how it exits, were its output read to the end.
\* stdout is a sequence of chunks: a line each, or a TooLong stretch.
ShellRun(command) ==
    CASE command = "echo line1 && echo line2 && echo line3" ->
           [stdout |-> <<"line1", "line2", "line3">>, stderr |-> "", code |-> 0]
      [] command = "echo output && exit 1" ->
           [stdout |-> <<"output">>, stderr |-> "", code |-> 1]
      [] command = "echo stdout && echo stderr >&2 && exit 1" ->
           [stdout |-> <<"stdout">>, stderr |-> "stderr", code |-> 1]
      [] command = "true" ->
           [stdout |-> <<>>, stderr |-> "", code |-> 0]
      [] command = "/nonexistent/command" ->
           [stdout |-> <<>>, stderr |-> "not found", code |-> 127]
      [] command = "head -c 1000000 /dev/zero" ->
           [stdout |-> [i \in 1..(PipeCap + 2) |-> TooLong], stderr |-> "", code |-> 0]
      [] OTHER ->
           [stdout |-> <<>>, stderr |-> "", code |-> 0]

\* the items sent down the pipe: an output line, the exit code 0, an error
Response(line) == [Output |-> <<line, "LF">>, ExitCode |-> NilInt, err |-> NilErr]

ExitZero == [Output |-> <<>>, ExitCode |-> IntPtr(0), err |-> NilErr]

Failure(e) == [Output |-> <<>>, ExitCode |-> NilInt, err |-> e]

ctxErr == Err(<<"context canceled">>, 0, <<>>)

\* the state before ExecuteStreaming is called
\*   pc      "idle", "running" (a stream was returned), "failed" (an error was)
\*   proc    the command: "none", "running", "exited", "killed"
\*   written, read   chunks of stdout written by the command, read by the scanner
\*   ctx     "live" or "done"; cancelAt: proc when the context was cancelled
\*   gpc     the producer goroutine: "scan", "select", "send", "stderrWait",
\*           "wait", "close", "exited"
\*   epc     the stderr goroutine: "reading", "exited"
\*   chan    the items in the pipe; wclosed: w.Close() was called
\*   rpc     the reader: "recv", "stopped"; got: the items received; eof
NoStream ==
    [pc |-> "idle", err |-> NilErr, command |-> "", proc |-> "none",
     written |-> 0, read |-> 0, ctx |-> "live", cancelAt |-> "none",
     gpc |-> "none", line |-> "", pending |-> ExitZero, next |-> "none",
     hasOutput |-> FALSE, epc |-> "none", chan |-> <<>>, wclosed |-> FALSE,
     rpc |-> "none", got |-> <<>>, eof |-> FALSE]

-----------------------------------------------------------------------------
(* The state machine: callers calling one backend                          *)
(*   pc  "idle"      no call made yet                                      *)
(*       "send"      sandbox: request built, invokeTool about to send it   *)
(*       "inflight"  sandbox: request sent, waiting in httpClient.Do       *)
(*       "lopen"     local Write: file created, content not yet written    *)
(*       "done"      the call has returned ret                             *)
(*   srv "none"      the remote script has not run                         *)
(*       "checked"   the write script has passed its existence check       *)
(*       "ran"       the remote script has ended with envelope env         *)

Callers == {"c1", "c2"}

InitCalls ==
    /\ streaming = NoStream
    /\ indexing = NoIndexing
    /\ pc = [c \in Callers |-> "idle"]
    /\ call = [c \in Callers |-> NoReq]
    /\ pre = [c \in Callers |-> fs]
    /\ sent = [c \in Callers |-> 0]
    /\ wire = [c \in Callers |-> NoWire]
    /\ srv = [c \in Callers |-> "none"]
    /\ env = [c \in Callers |-> ZeroResult]
    /\ resp = [c \in Callers |-> NoResp]
    /\ ret = [c \in Callers |-> NoRet]

\* mutant: a call whose execute failed sends its request again
AfterExecute_retry(x) == IF x.err.nil THEN "done" ELSE "send"

\* where a facade call goes once execute has returned: every branch returns
AfterExecute(x) == "done"

\* NewSandboxToolBackend: from then on the callers can use the backend, or
\* there is none
Construct ==
    /\ kind = "sandbox"
    /\ \A c \in Callers : pc[c] = "new"
    /\ LET n == NewSandboxToolBackend(newConfig)
       IN  /\ backend' = n.backend
           /\ newErr' = n.err
           /\ pc' = [c \in Callers |-> IF n.err.nil THEN "idle" ELSE "failed"]
    /\ UNCHANGED <<indexing, streaming, newConfig, kind, fs, call, pre, sent, wire, srv, env, resp, ret>>

\* a facade method from its entry to the call of invokeTool
Call(c, req) ==
    /\ kind = "sandbox"
    /\ pc[c] \in {"idle", "done"}
    /\ LET r == Render(req)
       IN  /\ call' = [call EXCEPT ![c] = req]
           /\ pre' = [pre EXCEPT ![c] = fs]
           /\ sent' = [sent EXCEPT ![c] = 0]
           /\ srv' = [srv EXCEPT ![c] = "none"]
           /\ env' = [env EXCEPT ![c] = ZeroResult]
           /\ resp' = [resp EXCEPT ![c] = NoResp]
           /\ IF ~r.err.nil
              THEN /\ pc' = [pc EXCEPT ![c] = "done"]
                   /\ ret' = [ret EXCEPT ![c] = Returned(r.err, <<>>, <<>>, NotExecuted)]
                   /\ wire' = [wire EXCEPT ![c] = NoWire]
              ELSE /\ pc' = [pc EXCEPT ![c] = "send"]
                   /\ ret' = [ret EXCEPT ![c] = NoRet]
                   /\ wire' = [wire EXCEPT ![c] =
                                 HTTPRequest(backend, invokeToolRequest(backend, r.script))]
    /\ UNCHANGED <<indexing, streaming, newConfig, newErr, kind, backend, fs>>

\* invokeTool: the request is signed at the instant now and httpClient.Do
\* sends it
Send(c, now) ==
    /\ kind = "sandbox"
    /\ pc[c] = "send"
    /\ sent[c] < MaxSend
    /\ pc' = [pc EXCEPT ![c] = "inflight"]
    /\ sent' = [sent EXCEPT ![c] = sent[c] + 1]
    /\ srv' = [srv EXCEPT ![c] = "none"]
    /\ wire' = [wire EXCEPT ![c] = signRequest(backend, wire[c], now)]
    /\ UNCHANGED <<indexing, streaming, newConfig, newErr, kind, backend, fs, call, pre, env, resp, ret>>

\* the sandbox runs the script of the request in flight (the write script
\* only up to its existence check)
ServerRun(c) ==
    /\ kind = "sandbox"
    /\ pc[c] = "inflight"
    /\ srv[c] = "none"
    /\ LET script == wire[c].body.OperationPayload.code
       IN  IF script.tpl = "write"
           THEN IF writeCheck(script.p, fs)
                THEN /\ srv' = [srv EXCEPT ![c] = "ran"]
                     /\ env' = [env EXCEPT ![c] = ServerEnvelope(writeExists(fs))]
                     /\ fs' = fs
                ELSE /\ srv' = [srv EXCEPT ![c] = "checked"]
                     /\ UNCHANGED <<env, fs>>
           ELSE LET run == RunScript(script, fs)
                IN  /\ srv' = [srv EXCEPT ![c] = "ran"]
                    /\ env' = [env EXCEPT ![c] = ServerEnvelope(run)]
                    /\ fs' = run.files
    /\ UNCHANGED <<indexing, streaming, newConfig, newErr, kind, backend, pc, call, pre, sent, wire, resp, ret>>

\* the write script after its existence check
ServerWrite(c) ==
    /\ kind = "sandbox"
    /\ pc[c] = "inflight"
    /\ srv[c] = "checked"
    /\ LET run == writeCommit(wire[c].body.OperationPayload.code.p, fs)
       IN  /\ srv' = [srv EXCEPT ![c] = "ran"]
           /\ env' = [env EXCEPT ![c] = ServerEnvelope(run)]
           /\ fs' = run.files
    /\ UNCHANGED <<indexing, streaming, newConfig, newErr, kind, backend, pc, call, pre, sent, wire, resp, ret>>

\* httpClient.Do returns r; execute decodes it and the facade method returns
Deliver(c, r) ==
    /\ kind = "sandbox"
    /\ pc[c] = "inflight"
    /\ srv[c] \in {"none", "ran"}
    /\ resp' = [resp EXCEPT ![c] = r]
    /\ LET x == execute(r)
       IN  /\ pc' = [pc EXCEPT ![c] = AfterExecute(x)]
           /\ ret' = [ret EXCEPT ![c] = Return(call[c].op, x)]
    /\ UNCHANGED <<indexing, streaming, newConfig, newErr, kind, backend, fs, call, pre, sent, wire, srv, env>>

\* the caller's context is cancelled while the request is in flight, at any
\* point of the script's run: the request is aborted and the call returns
Cancel(c, r) ==
    /\ kind = "sandbox"
    /\ pc[c] = "inflight"
    /\ r.kind \in {"doCanceled", "readCanceled"}
    /\ resp' = [resp EXCEPT ![c] = r]
    /\ LET x == execute(r)
       IN  /\ pc' = [pc EXCEPT ![c] = AfterExecute(x)]
           /\ ret' = [ret EXCEPT ![c] = Return(call[c].op, x)]
    /\ UNCHANGED <<indexing, streaming, newConfig, newErr, kind, backend, fs, call, pre, sent, wire, srv, env>>

\* the responses a call in flight can get: the envelope of its run once the
\* script has ended, or one of the given faults at any time
Responses(c, faults) == faults \cup (IF srv[c] = "ran" THEN {OK200(env[c])} ELSE {})

\* a local Read, Edit, GrepRaw or LsInfo, entry to return
LocalCall(c, req) ==
    /\ kind = "local"
    /\ pc[c] \in {"idle", "done"}
    /\ req.op \in {"read", "edit", "grep", "ls"}
    /\ LET l == LocalOp(req, fs)
       IN  /\ fs' = l.files
           /\ ret' = [ret EXCEPT ![c] = l.ret]
    /\ call' = [call EXCEPT ![c] = req]
    /\ pre' = [pre EXCEPT ![c] = fs]
    /\ pc' = [pc EXCEPT ![c] = "done"]
    /\ UNCHANGED <<indexing, streaming, newConfig, newErr, kind, backend, sent, wire, srv, env, resp>>

\* a local Write from its entry to the return of os.OpenFile
LocalWriteCall(c, req) ==
    /\ kind = "local"
    /\ pc[c] \in {"idle", "done"}
    /\ req.op = "write"
    /\ LET l == LocalWriteOpen(req, fs)
       IN  /\ fs' = l.files
           /\ ret' = [ret EXCEPT ![c] = l.ret]
           /\ pc' = [pc EXCEPT ![c] = IF l.ret.err.nil THEN "lopen" ELSE "done"]
    /\ call' = [call EXCEPT ![c] = req]
    /\ pre' = [pre EXCEPT ![c] = fs]
    /\ UNCHANGED <<indexing, streaming, newConfig, newErr, kind, backend, sent, wire, srv, env, resp>>

\* a local Write from file.Write to its return
LocalWriteFinish(c) ==
    /\ kind = "local"
    /\ pc[c] = "lopen"
    /\ LET l == LocalWriteData(call[c], fs)
       IN  /\ fs' = l.files
           /\ ret' = [ret EXCEPT ![c] = l.ret]
    /\ pc' = [pc EXCEPT ![c] = "done"]
    /\ UNCHANGED <<indexing, streaming, newConfig, newErr, kind, backend, call, pre, sent, wire, srv, env, resp>>

-----------------------------------------------------------------------------
(* Spec: one caller making one call after another on a backend of either   *)
(* kind, every operation, every way the transport can fail                 *)

EmptyTree == [q \in {} |-> <<>>]

Tree(p, text) == [q \in {p} |-> text]

PathA == <<"/", "a">>

PathB == <<"/", "b">>

InitTrees == {EmptyTree, Tree(PathA, <<"a", "LF", "b", "a">>)}

\* request paths: clean absolute, absolute but not clean, relative, empty
AbsPaths == {PathA, <<"/", "d", "..", "a">>}

AnyPaths == AbsPaths \cup {<<"rel">>, <<>>}

Requests ==
    {LsInfoRequest(p) : p \in {<<>>, PathA, PathB, <<"/", "a", "b">>, <<"rel">>}}
    \cup {ReadRequest(p, o, l) : p \in {PathA, <<"rel">>}, o \in {-1, 1}, l \in {0, 1}}
    \cup {GrepRequest(p, pat, g) :
            p \in {<<>>, PathA, PathB}, pat \in {<<"a">>, <<"d">>}, g \in {"", "b"}}
    \cup {GlobInfoRequest(p, "*") : p \in {<<>>, PathB}}
    \cup {WriteRequest(p, t) : p \in AnyPaths, t \in {<<"a">>, <<"b", "CR", "LF">>}}
    \cup {EditRequest(p, o, n, all) :
            p \in {PathA, <<"rel">>}, o \in {<<>>, <<"a">>}, n \in {<<"a">>, <<"b">>},
            all \in BOOLEAN}
    \cup {ExecuteRequest(cmd) : cmd \in {"", "echo hello", "exit 3", "echo warn >&2", "printf 'a\\r\\nb'"}}

\* output whose second line is not JSON; the other two decode as a FileInfo
\* and as a GrepMatch
MixedLines ==
    <<[num |-> 1, s |-> <<"json", "x", "false">>, f |-> PathA],
      Line(0, <<"oops">>),
      [num |-> 2, s |-> <<"json", "y", "true">>, f |-> PathB]>>

\* the envelopes a failing kernel reports and those of the package's tests
EnvelopeSamples ==
    {Result(FALSE, <<>>),
     Result(FALSE, <<Output("error", <<>>, "", "")>>),
     Result(FALSE, <<Output("error", <<>>, "PermissionError", "permission denied")>>),
     Result(FALSE, <<Output("stream", Diag(<<"Permission denied">>), "PermissionError",
                            "permission denied")>>),
     Result(TRUE, <<Output("stream", Diag(<<"hello world">>), "", "")>>),
     Result(TRUE, <<Output("stream", MixedLines, "", "")>>)}

\* every response that is not the envelope of the call's own run
Faults ==
    {Resp("doErr", 0, "bad", "empty", ZeroResult),
     Resp("readErr", 200, "bad", "empty", ZeroResult),
     Resp("http", 500, "bad", "empty", ZeroResult),
     Resp("http", 500, "ok", "json", Result(TRUE, <<>>)),
     Resp("http", 200, "bad", "empty", ZeroResult),
     Resp("http", 200, "ok", "empty", ZeroResult),
     Resp("http", 200, "ok", "bad", ZeroResult),
     Resp("http", 200, "ok", "null", ZeroResult)}
    \cup {OK200(e) : e \in EnvelopeSamples}

\* a cancellation that cuts off a response which would have reported success
Cancellations ==
    {Resp(k, 200, "ok", "json", Result(TRUE, <<Output("stream", Diag(<<"hello world">>), "", "")>>)) :
        k \in {"doCanceled", "readCanceled"}}

Main == "c1"

Init ==
    /\ kind \in {"sandbox", "local"}
    /\ newConfig \in IF kind = "sandbox" THEN Configs ELSE {NoConfig}
    /\ backend = IF kind = "sandbox" THEN NewSandboxToolBackend(newConfig).backend
                 ELSE NoBackend
    /\ newErr = NilErr
    /\ fs \in InitTrees
    /\ InitCalls

Next ==
    \/ \E req \in Requests : Call(Main, req)
    \/ Send(Main, Epoch)
    \/ ServerRun(Main)
    \/ ServerWrite(Main)
    \/ \E r \in Responses(Main, Faults) : Deliver(Main, r)
    \/ \E r \in Cancellations : Cancel(Main, r)
    \/ \E req \in Requests : LocalCall(Main, req)
    \/ \E req \in Requests : LocalWriteCall(Main, req)
    \/ LocalWriteFinish(Main)

Spec == Init /\ [][Next]_vars

-----------------------------------------------------------------------------
(* SpecEdit: one Edit, on either backend, of a file holding any text up to *)
(* MaxTextLen over EditChars, for every OldString up to MaxOldLen          *)

EditChars == {"a", "b", "CR"}

EditTexts == SeqsUpTo(EditChars, MaxTextLen)

EditOlds == SeqsUpTo({"a", "b"}, MaxOldLen) \ {<<>>}

EditNews == {<<>>, <<"b">>, <<"a", "a">>}

EditRequests ==
    {EditRequest(PathA, o, n, all) : o \in EditOlds, n \in EditNews, all \in BOOLEAN}

DefaultConfig ==
    [AccessKeyID |-> "test-ak", SecretAccessKey |-> "test-sk", Region |-> "",
     ToolID |-> "test-tool", SessionID |-> "", UserSessionID |-> "test-session",
     SessionTTL |-> 0, ExecutionTimeout |-> 0]

InitEdit ==
    /\ kind \in {"sandbox", "local"}
    /\ newConfig = IF kind = "sandbox" THEN DefaultConfig ELSE NoConfig
    /\ backend = IF kind = "sandbox" THEN NewSandboxToolBackend(newConfig).backend
                 ELSE NoBackend
    /\ newErr = NilErr
    /\ fs \in {Tree(PathA, t) : t \in EditTexts}
    /\ InitCalls

NextEdit ==
    \/ \E req \in EditRequests : pc[Main] = "idle" /\ Call(Main, req)
    \/ Send(Main, Epoch)
    \/ ServerRun(Main)
    \/ \E r \in Responses(Main, {}) : Deliver(Main, r)
    \/ \E req \in EditRequests : pc[Main] = "idle" /\ LocalCall(Main, req)

SpecEdit == InitEdit /\ [][NextEdit]_vars

-----------------------------------------------------------------------------
(* SpecRead: Reads, on either backend, of a file of L lines, for short     *)
(* files and for one longer than the default limit                         *)

\* the content of line i (1-indexed) of the files read
LineAt(i) == IF i % 2 = 1 THEN <<"a">> ELSE <<"b", "a">>

\* the lines lo..hi of a file of L lines, each ended by nl except, when open,
\* the last
RECURSIVE FileText(_, _, _, _, _)
FileText(L, nl, open, lo, hi) ==
    IF lo > hi THEN <<>>
    ELSE IF lo = hi THEN LineAt(lo) \o (IF lo = L /\ open THEN <<>> ELSE nl)
    ELSE LET mid == (lo + hi) \div 2
         IN  FileText(L, nl, open, lo, mid) \o FileText(L, nl, open, mid + 1, hi)

LongLines == DefaultLimit + 2

ReadFiles ==
    {[L |-> L, nl |-> nl, open |-> open] :
        L \in 1..MaxLines, nl \in {<<"LF">>, <<"CR", "LF">>}, open \in BOOLEAN}
    \cup {[L |-> LongLines, nl |-> <<"LF">>, open |-> FALSE]}

TextOf(f) == FileText(f.L, f.nl, f.open, 1, f.L)

ReadOffsets == {-1, 0, 1, 2, MaxLines, DefaultLimit}

ReadLimits == {-1, 0, 1, 2, DefaultLimit + 1}

ReadRequests == {ReadRequest(PathA, o, l) : o \in ReadOffsets, l \in ReadLimits}

InitRead ==
    /\ kind \in {"sandbox", "local"}
    /\ newConfig = IF kind = "sandbox" THEN DefaultConfig ELSE NoConfig
    /\ backend = IF kind = "sandbox" THEN NewSandboxToolBackend(newConfig).backend
                 ELSE NoBackend
    /\ newErr = NilErr
    /\ fs \in {Tree(PathA, TextOf(f)) : f \in ReadFiles}
    /\ InitCalls

NextRead ==
    \/ \E req \in ReadRequests : Call(Main, req)
    \/ Send(Main, Epoch)
    \/ ServerRun(Main)
    \/ \E r \in Responses(Main, {}) : Deliver(Main, r)
    \/ \E req \in ReadRequests : LocalCall(Main, req)

SpecRead == InitRead /\ [][NextRead]_vars

-----------------------------------------------------------------------------
(* SpecConc: two callers using one backend at the same time; their calls,  *)
(* and on the sandbox the runs of their scripts, interleave step by step   *)

ConcRequests ==
    {WriteRequest(PathA, t) : t \in {<<"a">>, <<"b">>}}
    \cup {ReadRequest(PathA, 0, 0), WriteRequest(<<"rel">>, <<"a">>)}

ConcFaults ==
    {Resp("doErr", 0, "bad", "empty", ZeroResult),
     Resp("http", 200, "ok", "empty", ZeroResult)}

InitConc ==
    /\ kind \in {"sandbox", "local"}
    /\ newConfig \in IF kind = "sandbox" THEN Configs ELSE {NoConfig}
    /\ backend = IF kind = "sandbox" THEN NewSandboxToolBackend(newConfig).backend
                 ELSE NoBackend
    /\ newErr = NilErr
    /\ fs = EmptyTree
    /\ InitCalls

NextConc ==
    \E c \in Callers :
        \/ \E req \in ConcRequests : Call(c, req)
        \/ Send(c, Epoch)
        \/ ServerRun(c)
        \/ ServerWrite(c)
        \/ \E r \in Responses(c, ConcFaults) : Deliver(c, r)
        \/ \E req \in ConcRequests : LocalCall(c, req)
        \/ \E req \in ConcRequests : LocalWriteCall(c, req)
        \/ LocalWriteFinish(c)

SpecConc == InitConc /\ [][NextConc]_vars

-----------------------------------------------------------------------------
(* SpecNew: construction from every combination of set and unset Config    *)
(* fields, followed by calls on the backend constructed                    *)

NewConfigs ==
    [AccessKeyID : {"", "test-ak"}, SecretAccessKey : {"", "test-sk"},
     Region : {"", RegionOfBeijing, RegionOfShangHai, "invalid-region"},
     ToolID : {"", "test-tool"}, SessionID : {"", "sess-1"},
     UserSessionID : {"", "test-session"}, SessionTTL : {-1, 0, 3600},
     ExecutionTimeout : {-1, 0, 60}]

NewRequests ==
    {LsInfoRequest(p) : p \in {<<>>, <<"rel">>, <<"d", "..", "rel">>}}
    \cup {GlobInfoRequest(p, "*") : p \in {<<>>, <<"rel">>}}
    \cup {ExecuteRequest("echo hello")}

InitNew ==
    /\ kind = "sandbox"
    /\ newConfig \in NewConfigs
    /\ backend = NoBackend
    /\ newErr = NilErr
    /\ fs = Tree(PathA, <<"a">>)
    /\ streaming = NoStream
    /\ indexing = NoIndexing
    /\ pc = [c \in Callers |-> "new"]
    /\ call = [c \in Callers |-> NoReq]
    /\ pre = [c \in Callers |-> fs]
    /\ sent = [c \in Callers |-> 0]
    /\ wire = [c \in Callers |-> NoWire]
    /\ srv = [c \in Callers |-> "none"]
    /\ env = [c \in Callers |-> ZeroResult]
    /\ resp = [c \in Callers |-> NoResp]
    /\ ret = [c \in Callers |-> NoRet]

NextNew ==
    \/ Construct
    \/ \E req \in NewRequests : Call(Main, req)
    \/ \E now \in Times : Send(Main, now)
    \/ ServerRun(Main)
    \/ \E r \in Responses(Main, {}) : Deliver(Main, r)

SpecNew == InitNew /\ [][NextNew]_vars

-----------------------------------------------------------------------------
(* SpecSign: two callers whose requests are signed at either of two        *)
(* instants, by backends of either region                                  *)

SignConfigs ==
    [AccessKeyID : {"test-ak"}, SecretAccessKey : {"test-sk"},
     Region : {"", RegionOfShangHai}, ToolID : {"test-tool"}, SessionID : {""},
     UserSessionID : {"test-session"}, SessionTTL : {0, 3600},
     ExecutionTimeout : {0}]

SignRequests == {ExecuteRequest("echo hello"), LsInfoRequest(<<>>)}

InitSign ==
    /\ kind = "sandbox"
    /\ newConfig \in SignConfigs
    /\ backend = NewSandboxToolBackend(newConfig).backend
    /\ newErr = NilErr
    /\ fs = Tree(PathA, <<"a">>)
    /\ InitCalls

NextSign ==
    \E c \in Callers :
        \/ \E req \in SignRequests : Call(c, req)
        \/ \E now \in Times : Send(c, now)
        \/ ServerRun(c)
        \/ \E r \in Responses(c, {}) : Deliver(c, r)

SpecSign == InitSign /\ [][NextSign]_vars

-----------------------------------------------------------------------------
(* SpecFrame: sequences of Edit, Write and Read calls, on either backend,  *)
(* over a tree of two files                                                *)

PathD == <<"/", "d", "a">>

FrameTree ==
    [q \in {PathA, PathB} |-> IF q = PathA THEN <<"a", "b", "a">> ELSE <<"b", "CR", "LF">>]

FrameRequests ==
    {EditRequest(p, o, n, all) :
        p \in {PathA, PathB, PathD, <<"rel">>},
        o \in {<<>>, <<"a">>, <<"b">>, <<"c">>}, n \in {<<>>, <<"b">>}, all \in BOOLEAN}
    \cup {WriteRequest(p, <<"a", "a">>) : p \in {PathA, PathD}}
    \cup {ReadRequest(p, 0, 0) : p \in {PathA, PathD}}

FrameFaults == {Resp("doErr", 0, "bad", "empty", ZeroResult)}

InitFrame ==
    /\ kind \in {"sandbox", "local"}
    /\ newConfig = IF kind = "sandbox" THEN DefaultConfig ELSE NoConfig
    /\ backend = IF kind = "sandbox" THEN NewSandboxToolBackend(newConfig).backend
                 ELSE NoBackend
    /\ newErr = NilErr
    /\ fs = FrameTree
    /\ InitCalls

NextFrame ==
    \/ \E req \in FrameRequests : Call(Main, req)
    \/ Send(Main, Epoch)
    \/ ServerRun(Main)
    \/ ServerWrite(Main)
    \/ \E r \in Responses(Main, FrameFaults) : Deliver(Main, r)
    \/ \E req \in FrameRequests : LocalCall(Main, req)
    \/ \E req \in FrameRequests : LocalWriteCall(Main, req)
    \/ LocalWriteFinish(Main)

SpecFrame == InitFrame /\ [][NextFrame]_vars

-----------------------------------------------------------------------------
(* ExecuteStreaming: the steps of the call, the command and the goroutines *)

sandboxVars ==
    <<newConfig, newErr, kind, backend, fs, pc, call, pre, sent, wire, srv, env, resp, ret>>

Started == streaming.pc = "running"

TheRun == ShellRun(streaming.command)

\* fmt.Errorf("command exited with non-zero code %d: %s", exitCode, stderrData)
ExitError(code, stderrData) ==
    Err(<<"command exited with non-zero code">>, code,
        IF stderrData = "" THEN <<>> ELSE Diag(<<stderrData>>))

\* what the producer sends once cmd.Wait has returned: the error of a command
\* that was killed or exited non-zero, the exit code 0 of one that printed
\* nothing, or nothing at all
WaitOutcome(proc, run, hasOutput) ==
    IF proc = "killed" THEN [send |-> TRUE, item |-> Failure(ExitError(-1, run.stderr))]
    ELSE IF run.code # 0
    THEN [send |-> TRUE, item |-> Failure(ExitError(run.code, run.stderr))]
    ELSE IF ~hasOutput THEN [send |-> TRUE, item |-> ExitZero]
    ELSE [send |-> FALSE, item |-> ExitZero]

\* the context passed to ExecuteStreaming is cancelled by its owner
ContextCancel ==
    /\ kind = "local"
    /\ streaming.pc \in {"idle", "running"}
    /\ streaming.ctx = "live"
    /\ streaming' = [streaming EXCEPT !.ctx = "done", !.cancelAt = streaming.proc]
    /\ UNCHANGED <<sandboxVars, indexing>>

\* ExecuteStreaming up to its return: the checks, cmd.Start, the pipe, and
\* the two goroutines set going
ExecuteStreaming(command) ==
    /\ kind = "local"
    /\ streaming.pc = "idle"
    /\ streaming' =
         IF command = ""
         THEN [streaming EXCEPT !.pc = "failed",
                                !.err = Err(<<"command is required">>, 0, <<>>)]
         ELSE IF streaming.ctx = "done"
         THEN [streaming EXCEPT !.pc = "failed",
                                !.err = Wrap("failed to start command", ctxErr)]
         ELSE [streaming EXCEPT !.pc = "running", !.command = command,
                                !.proc = "running", !.gpc = "scan",
                                !.epc = "reading", !.rpc = "recv"]
    /\ UNCHANGED <<sandboxVars, indexing>>

\* the command writes its next chunk of stdout; it blocks while the pipe is full
CommandWrite ==
    /\ Started
    /\ streaming.proc = "running"
    /\ streaming.written < Len(TheRun.stdout)
    /\ streaming.written - streaming.read < PipeCap
    /\ streaming' = [streaming EXCEPT !.written = @ + 1]
    /\ UNCHANGED <<sandboxVars, indexing>>

\* the command has written everything and exits
CommandExit ==
    /\ Started
    /\ streaming.proc = "running"
    /\ streaming.written = Len(TheRun.stdout)
    /\ streaming' = [streaming EXCEPT !.proc = "exited"]
    /\ UNCHANGED <<sandboxVars, indexing>>

\* exec.CommandContext: the command is killed once the context is done
ContextKill ==
    /\ Started
    /\ streaming.ctx = "done"
    /\ streaming.proc = "running"
    /\ streaming' = [streaming EXCEPT !.proc = "killed"]
    /\ UNCHANGED <<sandboxVars, indexing>>

\* scanner.Scan(): the next line, a token too long, or the end of stdout
Scan ==
    /\ Started
    /\ streaming.gpc = "scan"
    /\ IF streaming.read < streaming.written
       THEN LET chunk == TheRun.stdout[streaming.read + 1]
            IN  IF chunk = TooLong
                THEN streaming' =
                       [streaming EXCEPT
                          !.read = @ + 1, !.gpc = "send", !.next = "close",
                          !.pending = Failure(Wrap("error reading stdout",
                                                   Err(<<"token too long">>, 0, <<>>)))]
                ELSE streaming' =
                       [streaming EXCEPT !.read = @ + 1, !.hasOutput = TRUE,
                                         !.line = chunk, !.gpc = "select"]
       ELSE /\ streaming.proc # "running"
            /\ streaming' = [streaming EXCEPT !.gpc = "stderrWait"]
    /\ UNCHANGED <<sandboxVars, indexing>>

\* the select on ctx.Done() inside the scan loop
Select ==
    /\ Started
    /\ streaming.gpc = "select"
    /\ streaming' =
         IF streaming.ctx = "done"
         THEN [streaming EXCEPT
                 !.proc = IF @ = "running" THEN "killed" ELSE @,
                 !.pending = Failure(ctxErr), !.gpc = "send", !.next = "close"]
         ELSE [streaming EXCEPT
                 !.pending = Response(streaming.line), !.gpc = "send", !.next = "scan"]
    /\ UNCHANGED <<sandboxVars, indexing>>

\* w.Send: blocks while the pipe holds ChanCap items
PipeSend ==
    /\ Started
    /\ streaming.gpc = "send"
    /\ Len(streaming.chan) < ChanCap
    /\ streaming' = [streaming EXCEPT !.chan = Append(@, streaming.pending),
                                      !.gpc = streaming.next]
    /\ UNCHANGED <<sandboxVars, indexing>>

\* io.ReadAll(stderr) returns when the command has ended
StderrReadAll ==
    /\ Started
    /\ streaming.epc = "reading"
    /\ streaming.proc # "running"
    /\ streaming' = [streaming EXCEPT !.epc = "exited"]
    /\ UNCHANGED <<sandboxVars, indexing>>

\* <-stderrErr
AwaitStderr ==
    /\ Started
    /\ streaming.gpc = "stderrWait"
    /\ streaming.epc = "exited"
    /\ streaming' = [streaming EXCEPT !.gpc = "wait"]
    /\ UNCHANGED <<sandboxVars, indexing>>

\* cmd.Wait() and what follows it
CmdWait ==
    /\ Started
    /\ streaming.gpc = "wait"
    /\ streaming.proc # "running"
    /\ LET o == WaitOutcome(streaming.proc, TheRun, streaming.hasOutput)
       IN  streaming' =
             IF o.send
             THEN [streaming EXCEPT !.pending = o.item, !.gpc = "send", !.next = "close"]
             ELSE [streaming EXCEPT !.gpc = "close"]
    /\ UNCHANGED <<sandboxVars, indexing>>

\* the deferred w.Close()
PipeClose ==
    /\ Started
    /\ streaming.gpc = "close"
    /\ streaming' = [streaming EXCEPT !.wclosed = TRUE, !.gpc = "exited"]
    /\ UNCHANGED <<sandboxVars, indexing>>

\* the reader's sr.Recv(): the next item, or io.EOF once the pipe is closed
\* and empty; the reader stops at the first error
Recv ==
    /\ Started
    /\ streaming.rpc = "recv"
    /\ IF streaming.chan # <<>>
       THEN streaming' =
              [streaming EXCEPT
                 !.got = Append(@, Head(streaming.chan)), !.chan = Tail(@),
                 !.rpc = IF Head(streaming.chan).err.nil THEN "recv" ELSE "stopped"]
       ELSE /\ streaming.wclosed
            /\ streaming' = [streaming EXCEPT !.eof = TRUE, !.rpc = "stopped"]
    /\ UNCHANGED <<sandboxVars, indexing>>

StreamCommands ==
    {"", "echo line1 && echo line2 && echo line3", "echo output && exit 1",
     "echo stdout && echo stderr >&2 && exit 1", "true", "/nonexistent/command",
     "head -c 1000000 /dev/zero"}

InitStream ==
    /\ kind = "local"
    /\ newConfig = NoConfig
    /\ backend = NoBackend
    /\ newErr = NilErr
    /\ fs = EmptyTree
    /\ InitCalls

StreamStep ==
    \/ CommandWrite
    \/ CommandExit
    \/ ContextKill
    \/ Scan
    \/ Select
    \/ PipeSend
    \/ StderrReadAll
    \/ AwaitStderr
    \/ CmdWait
    \/ PipeClose
    \/ Recv

NextStream ==
    \/ \E command \in StreamCommands : ExecuteStreaming(command)
    \/ ContextCancel
    \/ StreamStep

SpecStream == InitStream /\ [][NextStream]_vars

\* the same, with every step of the command, of the goroutines and of the
\* reader taken when it can be; the owner of the context need never cancel
FairStream ==
    /\ SpecStream
    /\ WF_vars(CommandWrite)
    /\ WF_vars(CommandExit)
    /\ WF_vars(ContextKill)
    /\ WF_vars(Scan)
    /\ WF_vars(Select)
    /\ WF_vars(PipeSend)
    /\ WF_vars(StderrReadAll)
    /\ WF_vars(AwaitStderr)
    /\ WF_vars(CmdWait)
    /\ WF_vars(PipeClose)
    /\ WF_vars(Recv)

-----------------------------------------------------------------------------
(* The Elasticsearch indexer: NewIndexer and one Store call                *)

otherVars == <<sandboxVars, streaming>>

\* the orders in which a map with these keys can yield them
Orders(keys) == {o \in [1..Cardinality(keys) -> keys] : Range(o) = keys}

\* NewIndexer, conf.IndexSpec nil
NewIndexer(conf) ==
    /\ indexing.pc = "new"
    /\ indexing' =
         IF ~conf.Client
         THEN [indexing EXCEPT !.pc = "failed",
                 !.err = Err(<<"[NewIndexer] es client not provided">>, 0, <<>>)]
         ELSE IF ~conf.DocumentToFields
         THEN [indexing EXCEPT !.pc = "failed",
                 !.err = Err(<<"[NewIndexer] DocumentToFields method not provided">>,
                             0, <<>>)]
         ELSE [indexing EXCEPT
                 !.pc = "ready", !.fault = conf.fault,
                 !.BatchSize = IF conf.BatchSize = 0 THEN DefaultBatchSize
                               ELSE conf.BatchSize]
    /\ UNCHANGED otherVars

\* Store up to bulkAdd's loop: esutil.NewBulkIndexer
Store(docs) ==
    /\ indexing.pc = "ready"
    /\ indexing' =
         IF indexing.fault = "newBulkIndexer"
         THEN [indexing EXCEPT !.pc = "done", !.docs = docs, !.idx = 1, !.err = mockErr]
         ELSE [indexing EXCEPT !.pc = "loop", !.docs = docs, !.idx = 1]
    /\ UNCHANGED otherVars

\* one round of the loop; an error ends bulkAdd and Store
DocumentStep ==
    /\ indexing.pc = "loop"
    /\ indexing.idx <= Len(indexing.docs)
    /\ LET doc == indexing.docs[indexing.idx]
       IN  \E order \in Orders(DOMAIN DocumentToFields(doc).fields) :
             LET b == AddDocument(indexing, doc, order)
             IN  indexing' = IF b.err.nil THEN [b EXCEPT !.idx = @ + 1]
                             ELSE [b EXCEPT !.pc = "done"]
    /\ UNCHANGED otherVars

\* after the loop: the last batch, bi.Close, and Store's return
StoreReturn ==
    /\ indexing.pc = "loop"
    /\ indexing.idx > Len(indexing.docs)
    /\ LET b == CloseBulk(indexing)
       IN  indexing' = IF b.err.nil
                       THEN [b EXCEPT !.pc = "done", !.ids = iter(indexing.docs)]
                       ELSE [b EXCEPT !.pc = "done"]
    /\ UNCHANGED otherVars

IndexFaults ==
    {"none", "newBulkIndexer", "embedNil", "embedErr", "embedShort", "addErr", "closeErr"}

IndexerConfigs ==
    [Client : BOOLEAN, DocumentToFields : BOOLEAN, BatchSize : {0, 1, 2},
     fault : IndexFaults]

Shapes ==
    {"plain", "one", "two", "three", "sameEmbedKey", "originKey", "notString",
     "stringifyErr", "mappingErr"}

\* the documents of the tests, and a third that repeats an ID
TestDocs ==
    <<[ID |-> "123", Content |-> "asd"], [ID |-> "456", Content |-> "qwe"],
      [ID |-> "123", Content |-> "zxc"]>>

DocLists ==
    UNION {{[j \in 1..n |-> [ID |-> TestDocs[j].ID, Content |-> TestDocs[j].Content,
                            shape |-> f[j]]] : f \in [1..n -> Shapes]}
           : n \in 0..Len(TestDocs)}

InitIndex ==
    /\ kind = "local"
    /\ newConfig = NoConfig
    /\ backend = NoBackend
    /\ newErr = NilErr
    /\ fs = EmptyTree
    /\ InitCalls

NextIndex ==
    \/ \E conf \in IndexerConfigs : NewIndexer(conf)
    \/ \E docs \in DocLists : Store(docs)
    \/ DocumentStep
    \/ StoreReturn

SpecIndex == InitIndex /\ [][NextIndex]_vars

-----------------------------------------------------------------------------
(* SpecQuote: calls whose free text holds a single quote                   *)

QuoteTexts == {<<"a">>, <<Quote>>, <<"a", Quote>>}

QuoteRequests ==
    {GrepRequest(PathA, t, g) : t \in QuoteTexts, g \in {"", "*", Quote}}
    \cup {WriteRequest(PathB, t) : t \in QuoteTexts}
    \cup {EditRequest(PathA, o, n, FALSE) : o \in QuoteTexts, n \in {<<>>, <<Quote>>}}
    \cup {GlobInfoRequest(<<>>, g) : g \in {"*", Quote}}
    \cup {ExecuteRequest("echo hello")}

InitQuote ==
    /\ kind = "sandbox"
    /\ newConfig = DefaultConfig
    /\ backend = NewSandboxToolBackend(newConfig).backend
    /\ newErr = NilErr
    /\ fs = Tree(PathA, <<"a", Quote>>)
    /\ InitCalls

NextQuote ==
    \/ \E req \in QuoteRequests : Call(Main, req)
    \/ Send(Main, Epoch)
    \/ ServerRun(Main)
    \/ ServerWrite(Main)
    \/ \E r \in Responses(Main, {}) : Deliver(Main, r)

SpecQuote == InitQuote /\ [][NextQuote]_vars

-----------------------------------------------------------------------------
(* Properties *)

\* the call of c has returned
Done(c) == pc[c] = "done"

\* the call of c got, as its response, the envelope of its own script's run
Faithful(c) == srv[c] = "ran" /\ resp[c] = OK200(env[c])

\* the call of c is a Write with an absolute path that has run to its end
\* (on the sandbox: with the run's own envelope as the response)
WriteRan(c) ==
    /\ Done(c)
    /\ call[c].op = "write"
    /\ IsAbs(call[c].path)
    /\ kind = "sandbox" => Faithful(c)

MatchPositions(text, old) == {i \in 1..Len(text) : MatchAt(text, old, i)}

\* no two of the occurrences starting at the positions S share a character
NonOverlapping(S, len) == \A i, j \in S : i # j => (i - j >= len \/ j - i >= len)

\* the number of occurrences of old in text: the most that fit side by side
Occurrences(text, old) ==
    LET sets == {S \in SUBSET MatchPositions(text, old) : NonOverlapping(S, Len(old))}
    IN  CHOOSE n \in 0..Len(text) :
            /\ \E S \in sets : Cardinality(S) = n
            /\ \A S \in sets : Cardinality(S) <= n

\* text with the occurrences of a string of length len that start at the
\* positions S replaced by new, everything else kept
RECURSIVE Subst(_, _, _, _, _)
Subst(text, S, len, new, i) ==
    IF i > Len(text) THEN <<>>
    ELSE IF i \in S THEN new \o Subst(text, S, len, new, i + len)
         ELSE <<text[i]>> \o Subst(text, S, len, new, i + 1)

\* result is text with k occurrences of old replaced by new and otherwise
\* identical; with every, no occurrence of old in text is left unreplaced
EditedAs(text, result, old, new, k, every) ==
    \E S \in SUBSET MatchPositions(text, old) :
        /\ NonOverlapping(S, Len(old))
        /\ Cardinality(S) = k
        /\ every => \A i \in MatchPositions(text, old) :
                        \E j \in S : i - j < Len(old) /\ j - i < Len(old)
        /\ result = Subst(text, S, Len(old), new, 1)

\* the call of c is an Edit that passed local validation, on an existing file,
\* and has run to its end
EditRan(c) ==
    /\ Done(c)
    /\ call[c].op = "edit"
    /\ IsAbs(call[c].path)
    /\ call[c].old # <<>>
    /\ call[c].old # call[c].new
    /\ IsFile(pre[c], Clean(call[c].path))
    /\ kind = "sandbox" => Faithful(c)

EditPolicy(c) ==
    LET p == Clean(call[c].path)
        text == pre[c][p]
        old == call[c].old
        n == Occurrences(text, old)
    IN  /\ n = 0 => ~ret[c].err.nil /\ fs = pre[c]
        /\ (n > 1 /\ ~call[c].all) =>
              Mentions(ret[c].err, "appears multiple times") /\ fs = pre[c]
        /\ (n = 1 /\ ~call[c].all) =>
              ret[c].err.nil /\ EditedAs(text, fs[p], old, call[c].new, 1, FALSE)
        /\ (n >= 1 /\ call[c].all) =>
              ret[c].err.nil /\ EditedAs(text, fs[p], old, call[c].new, n, TRUE)

\* C2: an Edit on a file in which OldString occurs n times fails when n = 0,
\* fails mentioning "multiple times" when n > 1 without ReplaceAll, replaces
\* the occurrence when n = 1, and with ReplaceAll replaces all n occurrences,
\* the file being otherwise identical.
C2_EditPolicy == \A c \in Callers : EditRan(c) => EditPolicy(c)

\* the statement of C2 for the local backend alone (os.ReadFile, os.WriteFile)
C2_EditPolicyLocal == \A c \in Callers : (EditRan(c) /\ kind = "local") => EditPolicy(c)

\* the statement of C2 for files that hold no carriage return
C2_EditPolicyNoCR ==
    \A c \in Callers :
        (EditRan(c) /\ "CR" \notin Range(pre[c][Clean(call[c].path)])) => EditPolicy(c)

\* the call of c is a Read with an absolute path, of an existing non-empty
\* file, that has run to its end
ReadRan(c) ==
    /\ Done(c)
    /\ call[c].op = "read"
    /\ IsAbs(call[c].path)
    /\ IsFile(pre[c], Clean(call[c].path))
    /\ pre[c][Clean(call[c].path)] # <<>>
    /\ kind = "sandbox" => Faithful(c)

-----------------------------------------------------------------------------
(* Error mapping of the sandbox backend *)

\* the call of c is a sandbox call that has returned after a response came
Answered(c) == kind = "sandbox" /\ Done(c) /\ resp[c].kind # "none"

\* both layers of the response decode
Decodes(r) ==
    /\ r.kind = "http"
    /\ r.status = 200
    /\ r.outer = "ok"
    /\ r.inner \in {"json", "null"}

\* the result a response that decodes carries
Reported(r) == IF r.inner = "null" THEN ZeroResult ELSE r.result

FirstText(result) ==
    IF result.outputs = <<>> THEN <<>> ELSE result.outputs[1].text

\* the diagnostic of a failed run: the first output's text, else its
\* "ename: evalue", else nothing
RemoteDiagnostic(result) ==
    IF FirstText(result) # <<>> THEN FirstText(result)
    ELSE IF result.outputs # <<>> /\ result.outputs[1].ename # ""
    THEN Diag(<<result.outputs[1].ename, result.outputs[1].evalue>>)
    ELSE <<>>

\* C4: for every sandbox facade operation, a response that reports
\* success = false makes the operation return a non-nil error that embeds the
\* exit code -1 and the remote diagnostic text, with no result data; and an
\* operation returns a nil error only when its response reported success.
C4_FailureIsError ==
    \A c \in Callers :
        (kind = "sandbox" /\ Done(c)) =>
            /\ (Decodes(resp[c]) /\ ~Reported(resp[c]).success) =>
                  /\ ~ret[c].err.nil
                  /\ ret[c].err.code = -1
                  /\ ret[c].err.text = RemoteDiagnostic(Reported(resp[c]))
                  /\ ret[c].out = <<>>
                  /\ ret[c].list = <<>>
            /\ ret[c].err.nil => (Decodes(resp[c]) /\ Reported(resp[c]).success)

\* a Write to an existing file: the script printed its diagnostic and exited -1
C4_Witness ==
    /\ Answered(Main)
    /\ Faithful(Main)
    /\ call[Main].op = "write"
    /\ ~env[Main].success
    /\ ret[Main].err.code = -1
    /\ Mentions(ret[Main].err, "already exists")
    /\ ret[Main].err.text # <<>>

\* C5: when both envelope layers decode, execute returns a non-nil exit code,
\* 0 exactly when success is true and -1 exactly when it is false; on success
\* the text is the first output's text (empty without outputs), on failure
\* the first output's text if non-empty, else "ename: evalue" if ename is
\* non-empty, else empty. A nil exit code comes only with a non-nil error.
C5_ExecuteMapping ==
    \A c \in Callers :
        Answered(c) =>
            LET x == ret[c].exec
                result == Reported(resp[c])
            IN  /\ Decodes(resp[c]) =>
                    /\ x.err.nil
                    /\ ~x.exitCode.nil
                    /\ x.exitCode.v = 0 <=> result.success
                    /\ x.exitCode.v = -1 <=> ~result.success
                    /\ result.success => x.text = FirstText(result)
                    /\ ~result.success => x.text = RemoteDiagnostic(result)
                /\ x.exitCode.nil => ~x.err.nil

\* a failed run whose first output has a text and an error name: the text wins
C5_Witness ==
    /\ Answered(Main)
    /\ resp[Main] = OK200(Result(FALSE, <<Output("stream", Diag(<<"Permission denied">>),
                                                 "PermissionError", "permission denied")>>))
    /\ ret[Main].exec.text = Diag(<<"Permission denied">>)
    /\ ret[Main].exec.exitCode = IntPtr(-1)

\* the response is a failure of the transport
TransportFailure(r) ==
    \/ r.kind \in {"doErr", "readErr"}
    \/ r.status # 200
    \/ r.outer = "bad"
    \/ r.inner \in {"bad", "empty"}

\* C6: an HTTP client error, a status other than 200, an outer envelope that
\* does not decode and an inner result string that does not decode or is
\* missing or empty each make the operation return a non-nil error with no
\* output and a nil exit code, never a success; the outer and the inner decode
\* failure carry different messages.
C6_TransportFailure ==
    \A c \in Callers :
        (Answered(c) /\ TransportFailure(resp[c])) =>
            /\ ~ret[c].err.nil
            /\ ret[c].out = <<>>
            /\ ret[c].list = <<>>
            /\ ret[c].exec.text = <<>>
            /\ ret[c].exec.exitCode.nil
            /\ (resp[c].kind = "http" /\ resp[c].status = 200) =>
                 IF resp[c].outer = "bad"
                 THEN /\ Mentions(ret[c].err, "failed to unmarshal response")
                      /\ ~Mentions(ret[c].err, "failed to unmarshal result data")
                 ELSE /\ Mentions(ret[c].err, "failed to unmarshal result data")
                      /\ ~Mentions(ret[c].err, "failed to unmarshal response")

\* a 200 response whose result string is empty, received for a Read
C6_Witness ==
    /\ Answered(Main)
    /\ call[Main].op = "read"
    /\ resp[Main] = Resp("http", 200, "ok", "empty", ZeroResult)
    /\ Mentions(ret[Main].err, "failed to unmarshal result data")
    /\ ret[Main].exec.exitCode.nil

\* the request fails one of the checks made before anything is sent
RelativePath(req) == req.op \in {"read", "write", "edit"} /\ ~IsAbs(Clean(req.path))

PreconditionFails(req) ==
    \/ RelativePath(req)
    \/ req.op = "edit" /\ (req.old = <<>> \/ req.old = req.new)
    \/ req.op = "execute" /\ req.cmd = ""

\* C7: a sandbox Read, Write or Edit whose cleaned path is not absolute, an
\* Edit with an empty OldString or with OldString equal to NewString, and an
\* Execute with an empty Command return an error without any HTTP request
\* being sent; for the relative path the error mentions "absolute path".
C7_LocalValidation ==
    \A c \in Callers :
        (kind = "sandbox" /\ pc[c] # "idle" /\ PreconditionFails(call[c])) =>
            /\ Done(c)
            /\ ~ret[c].err.nil
            /\ sent[c] = 0
            /\ wire[c] = NoWire
            /\ resp[c] = NoResp
            /\ RelativePath(call[c]) => Mentions(ret[c].err, "path must be an absolute path")

\* an Edit of an absolute path with OldString equal to NewString
C7_Witness ==
    /\ kind = "sandbox"
    /\ Done(Main)
    /\ call[Main] = EditRequest(PathA, <<"a">>, <<"a">>, FALSE)
    /\ Mentions(ret[Main].err, "new string must be different from old string")
    /\ sent[Main] = 0

\* C8: a sandbox facade call sends at most one HTTP request, exactly one when
\* validation and rendering succeed and none otherwise; after a transport
\* error, a decode error or a script failure it has returned, with no second
\* request.
C8_NoRetry ==
    \A c \in Callers :
        kind = "sandbox" =>
            /\ sent[c] <= 1
            /\ pc[c] = "send" => sent[c] = 0
            /\ Done(c) =>
                 sent[c] = IF Render(call[c]).err.nil THEN 1 ELSE 0

\* a call whose one request met an HTTP client error, and that has returned
C8_Witness ==
    /\ Answered(Main)
    /\ resp[Main].kind = "doErr"
    /\ sent[Main] = 1
    /\ ~ret[Main].err.nil

-----------------------------------------------------------------------------
(* Concurrent use *)

\* c and d are two Writes of one path that both began before the path
\* existed, and both have run to their end
ConcurrentWrites(c, d) ==
    /\ c # d
    /\ WriteRan(c)
    /\ WriteRan(d)
    /\ Clean(call[c].path) = Clean(call[d].path)
    /\ ~Exists(pre[c], Clean(call[c].path))
    /\ ~Exists(pre[d], Clean(call[d].path))

AtMostOneWins(c, d) ==
    /\ ~(ret[c].err.nil /\ ret[d].err.nil)
    /\ ret[c].err.nil => fs[Clean(call[c].path)] = call[c].content

\* C9: Write is atomic with respect to its existence check: of two Writes of
\* one path that does not exist yet, running concurrently, at most one
\* returns success, and the file afterwards holds the content of the one that
\* succeeded.
C9_WriteAtomic ==
    \A c, d \in Callers : ConcurrentWrites(c, d) => AtMostOneWins(c, d)

\* C9 on the local backend alone, where os.OpenFile with O_EXCL does the
\* check and the creation in one step
C9_WriteAtomicLocal ==
    \A c, d \in Callers : (kind = "local" /\ ConcurrentWrites(c, d)) => AtMostOneWins(c, d)

\* the session identity of every request built is the backend's
CarriesIdentity(c) ==
    wire[c] # NoWire =>
        /\ wire[c].base = backend.baseURL
        /\ wire[c].body.ToolID = backend.toolID
        /\ wire[c].body.SessionID = backend.sessionID
        /\ wire[c].body.UserSessionID = backend.userSessionID
        /\ wire[c].body.Ttl = (IF backend.sessionTTL > 0 THEN IntPtr(backend.sessionTTL)
                                ELSE NilInt)

\* the result of a returned call is a function of its request and response
OwnResult(c) ==
    (kind = "sandbox" /\ Done(c)) =>
        ret[c] = IF Render(call[c]).err.nil
                 THEN Return(call[c].op, execute(resp[c]))
                 ELSE Returned(Render(call[c]).err, <<>>, <<>>, NotExecuted)

\* C10: the sandbox backend is safe for concurrent use: no step of any
\* facade operation changes the backend's fields, and under every
\* interleaving of two callers each request carries the configured ToolID,
\* SessionID and UserSessionID and each call's result is determined by that
\* call's own request and own response.
C10_ConcurrentUse ==
    /\ [][backend' = backend]_vars
    /\ [](\A c \in Callers : CarriesIdentity(c) /\ OwnResult(c))

\* one caller has returned with an error from its own failed transport
\* while the other, whose script has run, still waits for its response
C10_Witness ==
    /\ kind = "sandbox"
    /\ backend.sessionID = "sess-1"
    /\ Done("c1")
    /\ resp["c1"].kind = "doErr"
    /\ ~ret["c1"].err.nil
    /\ pc["c2"] = "inflight"
    /\ srv["c2"] = "ran"
    /\ wire["c2"].body.SessionID = "sess-1"
    /\ call["c1"] # call["c2"]

-----------------------------------------------------------------------------
(* Cancellation *)

\* the call of c returned because its context was cancelled in flight
Cancelled(c) ==
    kind = "sandbox" /\ Done(c) /\ resp[c].kind \in {"doCanceled", "readCanceled"}

\* C11: when the caller's context is cancelled before the HTTP response of a
\* sandbox call has been received, the request in flight is aborted and the
\* operation returns a non-nil error, with no result and a nil exit code; a
\* call never returns success without having received a response.
C11_Cancellation ==
    \A c \in Callers :
        /\ Cancelled(c) =>
              /\ ~ret[c].err.nil
              /\ Mentions(ret[c].err, "context canceled")
              /\ ret[c].out = <<>>
              /\ ret[c].list = <<>>
              /\ ret[c].exec.exitCode.nil
              /\ sent[c] = 1
        /\ (kind = "sandbox" /\ Done(c) /\ ret[c].err.nil) => resp[c].kind = "http"

\* an Execute cancelled while its script had not yet run
C11_Witness ==
    /\ Cancelled(Main)
    /\ call[Main].op = "execute"
    /\ srv[Main] = "none"
    /\ resp[Main].kind = "doCanceled"
    /\ ~ret[Main].err.nil

-----------------------------------------------------------------------------
(* The two operations that degrade silently: grep without match, ls of a  *)
(* missing directory                                                       *)

\* the call of c is a GrepRaw that has run to its end
GrepRan(c) ==
    /\ Done(c)
    /\ call[c].op = "grep"
    /\ kind = "sandbox" => Faithful(c)

\* the files under top that the glob admits
Searched(files, top, glob) ==
    {q \in DOMAIN files : (q = top \/ IsPrefix(top, q)) /\ (glob = "" \/ GlobMatch(q[Len(q)], glob))}

LsRan(c) ==
    /\ Done(c)
    /\ call[c].op = "ls"
    /\ call[c].path # <<>>
    /\ IsAbs(call[c].path)
    /\ kind = "sandbox" => Faithful(c)

\* C13: LsInfo on an absolute path that does not exist returns an empty list
\* and a nil error, not an error.
C13_LsMissing ==
    \A c \in Callers :
        (LsRan(c) /\ ~Exists(pre[c], Clean(call[c].path))) =>
            (ret[c].err.nil /\ ret[c].list = <<>>)

\* the statement of C13 for the missing paths none of whose ancestors is a
\* regular file
C13_LsMissingDirectory ==
    \A c \in Callers :
        (/\ LsRan(c)
         /\ ~Exists(pre[c], Clean(call[c].path))
         /\ ~ParentBlocked(pre[c], Clean(call[c].path))) =>
            (ret[c].err.nil /\ ret[c].list = <<>>)

-----------------------------------------------------------------------------
(* Construction *)

\* NewSandboxToolBackend has returned
Constructed == \A c \in Callers : pc[c] # "new"

\* the backend holds the configured values as they were given
StoresConfig ==
    /\ backend.accessKeyID = newConfig.AccessKeyID
    /\ backend.secretAccessKey = newConfig.SecretAccessKey
    /\ backend.toolID = newConfig.ToolID
    /\ backend.sessionID = newConfig.SessionID
    /\ backend.userSessionID = newConfig.UserSessionID
    /\ backend.sessionTTL = newConfig.SessionTTL
    /\ backend.executionTimeout = newConfig.ExecutionTimeout

RestValid ==
    /\ newConfig.AccessKeyID # ""
    /\ newConfig.SecretAccessKey # ""
    /\ newConfig.ToolID # ""
    /\ newConfig.Region \in {"", "cn-beijing", "cn-shanghai"}

RestValidForRegion ==
    /\ newConfig.AccessKeyID # ""
    /\ newConfig.SecretAccessKey # ""
    /\ newConfig.ToolID # ""
    /\ (newConfig.SessionID # "" \/ newConfig.UserSessionID # "")

\* the fixed table of base URLs
BaseURLOf(region) ==
    IF region = "cn-beijing" THEN "https://agentkit.cn-beijing.volces.com"
    ELSE IF region = "cn-shanghai" THEN "https://agentkit.cn-shanghai.volces.com"
    ELSE "none"

\* C16: construction resolves the region to a base URL from a fixed table: an
\* empty Region yields cn-beijing with the Beijing base URL, RegionOfBeijing
\* and RegionOfShangHai yield their own base URLs, any other value makes
\* construction fail with an error naming the value; in every constructed
\* backend the stored baseURL is the table entry of the stored region.
C16_RegionTable ==
    Constructed =>
        /\ RestValidForRegion =>
             /\ newConfig.Region = "" =>
                  (newErr.nil /\ backend.region = "cn-beijing")
             /\ newConfig.Region \in {"cn-beijing", "cn-shanghai"} =>
                  (newErr.nil /\ backend.region = newConfig.Region)
             /\ newConfig.Region \notin {"", "cn-beijing", "cn-shanghai"} =>
                  /\ ~newErr.nil
                  /\ newErr.msg = <<"invalid region", newConfig.Region>>
        /\ newErr.nil =>
             /\ backend.region \in {"cn-beijing", "cn-shanghai"}
             /\ backend.baseURL = BaseURLOf(backend.region)
             /\ \A c \in Callers : wire[c] # NoWire => wire[c].base = BaseURLOf(backend.region)

\* a backend of the Shanghai region has built a request
C16_Witness ==
    /\ Constructed
    /\ newErr.nil
    /\ newConfig.Region = "cn-shanghai"
    /\ backend.baseURL = "https://agentkit.cn-shanghai.volces.com"
    /\ wire[Main] # NoWire
    /\ wire[Main].base = "https://agentkit.cn-shanghai.volces.com"

-----------------------------------------------------------------------------
(* Paths of LsInfo and GlobInfo *)

\* the call of c is a sandbox call under way or returned
Active(c) == kind = "sandbox" /\ pc[c] \in {"send", "inflight", "done"}

\* the path the script of c's request was rendered with
ScriptPath(c) ==
    LET p == wire[c].body.OperationPayload.code.p
    IN  IF call[c].op = "ls" THEN p.path ELSE B64Decode(p.path_b64)

\* C17: LsInfo and GlobInfo called with an empty path operate on the root
\* path "/" and do not fail local validation.
C17_EmptyPathIsRoot ==
    \A c \in Callers :
        (Active(c) /\ call[c].op \in {"ls", "glob"} /\ call[c].path = <<>>) =>
            /\ wire[c] # NoWire
            /\ ScriptPath(c) = <<"/">>
            /\ Done(c) => sent[c] = 1
            /\ (Done(c) /\ Faithful(c)) =>
                 /\ ret[c].err.nil
                 /\ Len(ret[c].list) = Cardinality(ChildNames(pre[c], <<"/">>))

\* an LsInfo of the empty path has listed the one entry of the root
C17_Witness ==
    /\ Active(Main)
    /\ Done(Main)
    /\ Faithful(Main)
    /\ call[Main] = LsInfoRequest(<<>>)
    /\ ret[Main].err.nil
    /\ ret[Main].list = <<[Path |-> "a", IsDir |-> FALSE]>>

\* the call of c has a non-empty path that is relative after cleaning
RelativeCall(c, op) ==
    /\ Active(c)
    /\ call[c].op = op
    /\ call[c].path # <<>>
    /\ ~IsAbs(Clean(call[c].path))

\* C18 as stated: the sandbox LsInfo does not require an absolute path: a
\* non-empty relative path is cleaned and passed to the remote ls script
\* rather than being rejected locally.
C18_LsRelativePassed ==
    \A c \in Callers :
        RelativeCall(c, "ls") =>
            (wire[c] # NoWire /\ ScriptPath(c) = Clean(call[c].path))

\* C18 amended: the sandbox LsInfo requires an absolute path: a non-empty
\* path that is relative after cleaning is rejected locally, with an error
\* mentioning "absolute path" and without any request; only GlobInfo uses the
\* looser rule, cleaning a relative path and passing it to its script.
C18_LsRelativeRejected ==
    \A c \in Callers :
        /\ RelativeCall(c, "ls") =>
             /\ Done(c)
             /\ Mentions(ret[c].err, "path must be an absolute path")
             /\ ret[c].list = <<>>
             /\ sent[c] = 0
             /\ wire[c] = NoWire
        /\ RelativeCall(c, "glob") =>
             (wire[c] # NoWire /\ ScriptPath(c) = Clean(call[c].path))

\* an LsInfo of a relative path that cleaning shortens, rejected
C18_Witness ==
    /\ RelativeCall(Main, "ls")
    /\ call[Main].path = <<"d", "..", "rel">>
    /\ Done(Main)
    /\ Mentions(ret[Main].err, "path must be an absolute path")
    /\ sent[Main] = 0

-----------------------------------------------------------------------------
(* Optional fields of the request *)

\* C19: in every request the sandbox backend sends, the operation payload
\* has a timeout field if and only if ExecutionTimeout is greater than 0 and
\* the request has a Ttl field if and only if SessionTTL is greater than 0;
\* a field that is present holds the configured value, and otherwise the
\* field is omitted from the request.
C19_OptionalFields ==
    \A c \in Callers :
        (Active(c) /\ wire[c] # NoWire) =>
            LET j == wire[c].json
                payload == j["OperationPayload"]
            IN  /\ ("timeout" \in DOMAIN payload) <=> (backend.executionTimeout > 0)
                /\ ("timeout" \in DOMAIN payload) =>
                       payload.timeout = backend.executionTimeout
                /\ ("Ttl" \in DOMAIN j) <=> (backend.sessionTTL > 0)
                /\ ("Ttl" \in DOMAIN j) => j["Ttl"] = IntPtr(backend.sessionTTL)

\* what the code does keep of C19: the timeout key exactly when the timeout
\* is positive, and a Ttl that is the configured value when the TTL is
\* positive and the JSON null otherwise
OptionalFieldsSent ==
    \A c \in Callers :
        (Active(c) /\ wire[c] # NoWire) =>
            LET j == wire[c].json
                payload == j["OperationPayload"]
            IN  /\ ("timeout" \in DOMAIN payload) <=> (backend.executionTimeout > 0)
                /\ ("timeout" \in DOMAIN payload) =>
                       payload.timeout = backend.executionTimeout
                /\ "Ttl" \in DOMAIN j
                /\ j["Ttl"] = (IF backend.sessionTTL > 0 THEN IntPtr(backend.sessionTTL)
                               ELSE NilInt)

-----------------------------------------------------------------------------
(* Signing *)

\* the request of c has been handed to httpClient.Do
Sent(c) == kind = "sandbox" /\ pc[c] \in {"inflight", "done"} /\ sent[c] > 0 /\ wire[c] # NoWire

\* what the claim lets the Authorization value depend on
SignInputs(c) ==
    <<wire[c].method, wire[c].query, wire[c].host, wire[c].header["X-Date"],
      wire[c].json, backend.accessKeyID, backend.secretAccessKey, backend.region,
      service>>

\* C20: no sandbox HTTP request is sent unsigned: every request sent is a
\* POST to {baseURL}/?Action=InvokeTool&Version=2025-10-30 that carries
\* Content-Type, X-Date, X-Content-Sha256 and Authorization; X-Content-Sha256
\* is the SHA-256 of exactly the body sent, which is the marshalled request of
\* the call; and two requests with the same method, query, host, X-Date, body,
\* keys, region and service carry the same Authorization value.
C20_SignedRequests ==
    /\ \A c \in Callers :
          Sent(c) =>
            /\ wire[c].method = "POST"
            /\ wire[c].base = backend.baseURL
            /\ wire[c].pathname = "/"
            /\ wire[c].query = <<"Action=InvokeTool", "Version=2025-10-30">>
            /\ DOMAIN wire[c].header =
                  {"Content-Type", "X-Date", "X-Content-Sha256", "Authorization"}
            /\ wire[c].header["Content-Type"] = "application/json"
            /\ wire[c].header["X-Date"] \in {<<t.day, t.clock>> : t \in Times}
            /\ wire[c].json = Marshal(invokeToolRequest(backend, Render(call[c]).script))
            /\ wire[c].header["X-Content-Sha256"] =
                  hexEncodeToString(hashSHA256(wire[c].json))
            /\ wire[c].header["Authorization"].Credential[1] = backend.accessKeyID
    /\ \A c, d \in Callers :
          (Sent(c) /\ Sent(d) /\ SignInputs(c) = SignInputs(d)) =>
              wire[c].header["Authorization"] = wire[d].header["Authorization"]

\* two callers have sent the same body signed at the same instant, and a
\* request signed at the other instant has been sent too in some state
C20_Witness ==
    /\ Sent("c1")
    /\ Sent("c2")
    /\ call["c1"] = ExecuteRequest("echo hello")
    /\ SignInputs("c1") = SignInputs("c2")
    /\ wire["c1"].header["Authorization"] = wire["c2"].header["Authorization"]
    /\ wire["c1"].header["X-Date"] = <<"20251031", "T000000Z">>

-----------------------------------------------------------------------------
(* Free text embedded in scripts *)

\* the parameters of a template that hold caller-supplied free text
FreeText(tpl) ==
    CASE tpl = "grep" -> {"pattern", "glob_pattern"}
      [] tpl = "glob" -> {"path_b64", "pattern_b64"}
      [] tpl = "write" -> {"content_b64"}
      [] tpl = "edit" -> {"old_b64", "new_b64"}
      [] tpl = "execute" -> {"command_b64"}
      [] OTHER -> {}

\* the structure of a rendered script: its template and the free-text
\* literals that the value, not the template, brings to an end
ScriptStructure(script) ==
    [tpl |-> script.tpl,
     open |-> {f \in FreeText(script.tpl) :
                 ~LiteralClosed(IF f = "glob_pattern" THEN Chars(script.p[f])
                                ELSE script.p[f])}]

\* the call with every free-text value replaced by a fixed one
SameButText(req) ==
    [req EXCEPT !.content = <<"a">>, !.old = <<"a">>, !.new = <<"b">>,
                !.pattern = <<"a">>, !.glob = "*",
                !.cmd = IF req.op = "execute" THEN "echo hello" ELSE ""]

\* C21: every caller-supplied free-text value embedded in a generated script
\* is base64-encoded by the facade, so that two calls of the same operation
\* that differ only in such a value give scripts of the same structure: the
\* value ends no literal of the script.
C21_FreeTextEncoded ==
    \A c \in Callers :
        (Active(c) /\ wire[c] # NoWire) =>
            LET script == wire[c].body.OperationPayload.code
            IN  /\ ScriptStructure(script).open = {}
                /\ ScriptStructure(script) =
                      ScriptStructure(Render(SameButText(call[c])).script)

\* what the code does keep of C21: the values of Write, Edit, GlobInfo and
\* Execute end no literal; the pattern and the glob filter of GrepRaw are
\* embedded as they are, and a quote in either makes the script fail
FreeTextEncodedButGrep ==
    \A c \in Callers :
        (Active(c) /\ wire[c] # NoWire) =>
            LET script == wire[c].body.OperationPayload.code
            IN  /\ script.tpl # "grep" => ScriptStructure(script).open = {}
                /\ (script.tpl = "grep" /\ Done(c) /\ Faithful(c)
                      /\ ScriptStructure(script).open # {}) => ~ret[c].err.nil

-----------------------------------------------------------------------------
(* Execute on the sandbox *)

\* the call of c is a sandbox Execute of a command that has run to its end
ExecuteRan(c) ==
    /\ kind = "sandbox"
    /\ Done(c)
    /\ Faithful(c)
    /\ call[c].op = "execute"
    /\ call[c].cmd # ""

\* the outcome follows the command's stderr alone
ByStderr(c) ==
    LET result == CommandRun(call[c].cmd)
    IN  /\ result.stderr # <<>> => (~ret[c].err.nil /\ ret[c].out = <<>>)
        /\ result.stderr = <<>> => ret[c].err.nil

\* C24: the sandbox Execute decides its outcome from the command's stderr
\* alone: anything on stderr makes it return an error, even with exit status
\* 0; with an empty stderr it returns success with the command's stdout
\* verbatim as Output, even with a non-zero exit status.
C24_ExecuteByStderr ==
    \A c \in Callers :
        ExecuteRan(c) =>
            /\ ByStderr(c)
            /\ CommandRun(call[c].cmd).stderr = <<>> =>
                  ret[c].out = CommandRun(call[c].cmd).stdout

\* what the code does keep of C24: the decision by stderr alone, and as
\* Output the stdout with "\r\n" and "\r" turned into "\n"
ExecuteByStderrTextMode ==
    \A c \in Callers :
        ExecuteRan(c) =>
            /\ ByStderr(c)
            /\ CommandRun(call[c].cmd).stderr = <<>> =>
                  LET stdout == CommandRun(call[c].cmd).stdout
                  IN  ret[c].out = [i \in 1..Len(stdout) |->
                                       [stdout[i] EXCEPT !.s = UniversalNewlines(@)]]

\* the three cases of the decision have happened: exit status 3 with nothing
\* on stderr is a success
ExecuteByStderrSeen ==
    /\ ExecuteRan(Main)
    /\ call[Main].cmd = "exit 3"
    /\ ret[Main].err.nil

-----------------------------------------------------------------------------
(* Decoding of line-delimited records *)

\* the call of c is a listing call whose script reported success
Listed(c) ==
    /\ kind = "sandbox"
    /\ Done(c)
    /\ call[c].op \in {"ls", "glob", "grep"}
    /\ ret[c].exec.err.nil
    /\ ret[c].exec.exitCode = IntPtr(0)

\* the lines of the output that are well-formed JSON, in output order
WellFormed(text) == SelectSeq(text, LAMBDA l : l.s # <<>> /\ l.s[1] = "json")

\* the record one well-formed line decodes to
RecordOf(op, l) ==
    IF op = "grep" THEN [Path |-> l.f, Line |-> l.num, Content |-> Tail(l.s)]
    ELSE [Path |-> l.s[2], IsDir |-> l.s[3] = "true"]

\* C25: LsInfo, GlobInfo and GrepRaw decode the remote output line by line
\* and independently: the result holds exactly one record for each
\* well-formed JSON line, in output order; a malformed line is skipped
\* without failing the call and without changing the records of the other
\* lines; empty output gives an empty list and a nil error.
C25_LineByLine ==
    \A c \in Callers :
        Listed(c) =>
            LET good == WellFormed(ret[c].exec.text)
            IN  /\ ret[c].err.nil
                /\ Len(ret[c].list) = Len(good)
                /\ \A i \in 1..Len(good) : ret[c].list[i] = RecordOf(call[c].op, good[i])
                /\ ret[c].exec.text = <<>> => ret[c].list = <<>>

\* an LsInfo whose output had a malformed line between two records
C25_Witness ==
    /\ Listed(Main)
    /\ call[Main].op = "ls"
    /\ ret[Main].exec.text = MixedLines
    /\ ret[Main].err.nil
    /\ ret[Main].list = <<[Path |-> "x", IsDir |-> FALSE], [Path |-> "y", IsDir |-> TRUE]>>

-----------------------------------------------------------------------------
(* What a failed Edit leaves alone *)

\* the call of c is an Edit that has returned
EditDone(c) == Done(c) /\ call[c].op = "edit"

\* the call's run was not cut short: local, or the script's own envelope
\* came back
RanThrough(c) == kind = "local" \/ Faithful(c)

\* the reasons for which an Edit is refused
EditRefused(req, files) ==
    LET path == Clean(req.path)
    IN  \/ ~IsAbs(path)
        \/ req.old = <<>>
        \/ req.old = req.new
        \/ ~IsFile(files, path)
        \/ Occurrences(files[path], req.old) = 0
        \/ (Occurrences(files[path], req.old) > 1 /\ ~req.all)

\* C26: an Edit that returns an error (path not absolute, empty OldString,
\* OldString equal to NewString, file missing, OldString not found, or found
\* more than once without ReplaceAll) leaves the content of every file
\* unchanged; only a successful Edit changes a file, and it changes only the
\* target file.
C26_EditFrame ==
    \A c \in Callers :
        EditDone(c) =>
            /\ EditRefused(call[c], pre[c]) => (~ret[c].err.nil /\ fs = pre[c])
            /\ (RanThrough(c) /\ ~ret[c].err.nil) => fs = pre[c]
            /\ fs # pre[c] => ~EditRefused(call[c], pre[c])
            /\ ret[c].err.nil =>
                 /\ DOMAIN fs = DOMAIN pre[c]
                 /\ \A q \in DOMAIN fs : q # Clean(call[c].path) => fs[q] = pre[c][q]

\* a sandbox Edit refused for two occurrences without ReplaceAll, after an
\* earlier call had changed the other file
C26_Witness ==
    /\ EditDone(Main)
    /\ kind = "sandbox"
    /\ Faithful(Main)
    /\ call[Main] = EditRequest(PathA, <<"a">>, <<"b">>, FALSE)
    /\ Occurrences(pre[Main][PathA], <<"a">>) = 2
    /\ ~ret[Main].err.nil
    /\ fs = pre[Main]
    /\ fs # FrameTree

-----------------------------------------------------------------------------
(* The two backends against each other *)

\* what the local backend does with a request on a tree, entry to return
LocalResult(req, files) ==
    IF req.op = "write"
    THEN LET o == LocalWriteOpen(req, files)
         IN  IF o.ret.err.nil THEN LocalWriteData(req, o.files) ELSE o
    ELSE LocalOp(req, files)

\* the call of c is a sandbox Write, Edit or Read of an absolute path whose
\* script ran and whose response came back
Compared(c) ==
    /\ kind = "sandbox"
    /\ Done(c)
    /\ Faithful(c)
    /\ call[c].op \in {"write", "edit", "read"}
    /\ IsAbs(Clean(call[c].path))

\* c's call ended as the local backend would have ended it on the same tree
AsLocal(c) ==
    LET l == LocalResult(call[c], pre[c])
    IN  /\ ret[c].err.nil <=> l.ret.err.nil
        /\ fs = l.files

\* C27: the sandbox backend, its scripts run faithfully and the transport
\* never failing, and the local backend implement the same contract: from
\* the same file tree a Write, Edit or Read of an absolute path succeeds on
\* one exactly when it succeeds on the other and leaves the same file
\* contents, so that any sequence of such calls keeps the two trees equal.
C27_SameContract == \A c \in Callers : Compared(c) => AsLocal(c)

\* what the code does keep of C27: the two agree on every call but an Edit
\* of a file that holds a carriage return
SameContractButCR ==
    \A c \in Callers :
        (/\ Compared(c)
         /\ ~(/\ call[c].op = "edit"
              /\ IsFile(pre[c], Clean(call[c].path))
              /\ "CR" \in Range(pre[c][Clean(call[c].path)])))
        => AsLocal(c)

-----------------------------------------------------------------------------
(* ExecuteStreaming: what the reader receives                              *)

IsLine(item) == item.err.nil /\ item.ExitCode.nil

OutputLines(got) == SelectSeq(got, IsLine)

ShortLines(run) == TooLong \notin Range(run.stdout)

\* the output responses received are the command's first lines, one response
\* a line, in the order written
LinesInOrder(got, run) ==
    LET lines == OutputLines(got)
    IN  /\ Len(lines) <= Len(run.stdout)
        /\ \A i \in 1..Len(lines) : lines[i] = Response(run.stdout[i])

\* an error is the last item received
ErrorIsLast(got) == \A i \in 1..Len(got) : ~got[i].err.nil => i = Len(got)

\* an item that is not an output line comes after a response for every line
OutcomeAfterLines(got, run) ==
    \A i \in 1..Len(got) :
        ~IsLine(got[i]) => Len(OutputLines(SubSeq(got, 1, i - 1))) = Len(run.stdout)

\* C22: while the context is not cancelled, ExecuteStreaming delivers one
\* response per line of stdout in the order written, delivers the terminal
\* outcome only after every line, ends the stream of a command that exited
\* non-zero with an error that says 'non-zero code' and carries the exit code
\* and the stderr text, and delivers nothing after an error.
C22_LinesThenOutcome ==
    (Started /\ streaming.ctx = "live") =>
        /\ LinesInOrder(streaming.got, TheRun)
        /\ ErrorIsLast(streaming.got)
        /\ OutcomeAfterLines(streaming.got, TheRun)
        /\ (streaming.rpc = "stopped" /\ TheRun.code # 0) =>
             /\ streaming.got # <<>>
             /\ streaming.got[Len(streaming.got)]
                  = Failure(ExitError(TheRun.code, TheRun.stderr))

\* what the code does: the same, for a command none of whose lines is longer
\* than the scanner's buffer
LinesThenOutcomeShortLines == ShortLines(TheRun) => C22_LinesThenOutcome

\* a failed command's line and then its error have been received
LinesThenOutcomeSeen ==
    /\ Started
    /\ streaming.ctx = "live"
    /\ streaming.rpc = "stopped"
    /\ streaming.got = <<Response("stdout"), Failure(ExitError(1, "stderr"))>>

\* the context was cancelled while the command was running and printing lines
\* the scanner can hold
CancelledWhileRunning ==
    /\ Started
    /\ streaming.cancelAt = "running"
    /\ ShortLines(TheRun)

\* C23: when the context is cancelled while the command is running, the stream
\* ends with the context's error as its last item, the command has been
\* killed, and the lines received before are the command's first lines in
\* order.
C23_CancelEndsStream ==
    (CancelledWhileRunning /\ streaming.rpc = "stopped") =>
        /\ streaming.got # <<>>
        /\ streaming.got[Len(streaming.got)] = Failure(ctxErr)
        /\ streaming.proc = "killed"
        /\ LinesInOrder(streaming.got, TheRun)
        /\ ErrorIsLast(streaming.got)

\* what the code does: the lines received are in order and nothing follows an
\* error, but the stream may end with the error of the killed command, or as
\* the stream of a command that ran to its end
CancelKeepsLines ==
    (CancelledWhileRunning /\ streaming.rpc = "stopped") =>
        /\ LinesInOrder(streaming.got, TheRun)
        /\ ErrorIsLast(streaming.got)
        /\ \/ streaming.eof
           \/ streaming.got[Len(streaming.got)]
                \in {Failure(ctxErr), Failure(ExitError(-1, TheRun.stderr)),
                     Failure(ExitError(TheRun.code, TheRun.stderr))}

\* a cancelled stream that ended with the context's error after a line
CancelDeliveredSeen ==
    /\ CancelledWhileRunning
    /\ streaming.rpc = "stopped"
    /\ streaming.got = <<Response("line1"), Failure(ctxErr)>>

StreamEnded ==
    /\ streaming.rpc = "stopped"
    /\ streaming.gpc = "exited"
    /\ streaming.epc = "exited"

\* a command that succeeds and prints nothing yields the exit code 0 and then
\* the end of the stream
ExitZeroAlone ==
    (Started /\ streaming.rpc = "stopped" /\ streaming.proc = "exited"
       /\ TheRun.code = 0 /\ TheRun.stdout = <<>>) =>
        /\ streaming.got = <<ExitZero>>
        /\ streaming.eof

\* C28: every stream ExecuteStreaming returns comes to its end when the reader
\* keeps receiving: the reader sees the end of the stream or an error, and the
\* producer goroutine and the goroutine collecting stderr both exit; a command
\* that succeeds without output yields exactly one response, exit code 0.
C28_StreamTerminates ==
    /\ [](Started => <>StreamEnded)
    /\ []ExitZeroAlone

\* what the code does: the same for commands whose lines the scanner can hold
StreamTerminatesShortLines ==
    /\ []((Started /\ ShortLines(TheRun)) => <>StreamEnded)
    /\ []ExitZeroAlone

-----------------------------------------------------------------------------
(* The Elasticsearch indexer: batches of texts and the bulk items          *)

FieldsOf(doc) == DocumentToFields(doc).fields

EmbedFields(doc) == {k \in DOMAIN FieldsOf(doc) : FieldsOf(doc)[k].EmbedKey # ""}

\* the EmbedStrings calls whose vectors the bulk item holds
CallsOf(item) == {item.Body[k].call : k \in {x \in DOMAIN item.Body : item.Body[x].t = "vector"}}

\* bulkAdd has looked at docs[idx] and found its fields mapped
Examined ==
    /\ indexing.pc = "done"
    /\ indexing.fault # "newBulkIndexer"
    /\ indexing.idx <= Len(indexing.docs)
    /\ DocumentToFields(indexing.docs[indexing.idx]).err.nil

\* C29: every EmbedStrings call carries at most BatchSize texts (and the texts
\* collected for the next call never exceed it), the vectors of one document
\* all come from one call and the texts of a waiting document all wait for
\* the same call, and a document with more embed fields than BatchSize ends
\* bulkAdd with 'needEmbeddingFields length over batch size'.
C29_EmbedBatches ==
    /\ \A c \in 1..Len(indexing.calls) :
         Len(indexing.calls[c]) \in 1..indexing.BatchSize
    /\ Len(indexing.texts) <= indexing.BatchSize
    /\ \A j \in 1..Len(indexing.items) : Cardinality(CallsOf(indexing.items[j])) <= 1
    /\ \A j \in 1..Len(indexing.tuples) :
         \A k \in DOMAIN indexing.tuples[j].key2Idx :
             indexing.tuples[j].key2Idx[k] \in 1..Len(indexing.texts)
    /\ Examined =>
         (Cardinality(EmbedFields(indexing.docs[indexing.idx])) > indexing.BatchSize
            <=> Mentions(indexing.err,
                         "[bulkAdd] needEmbeddingFields length over batch size"))

\* a document with two embed fields was rejected under BatchSize 1, after the
\* text of the first document had been embedded in a call of its own
C29_Witness ==
    /\ Examined
    /\ Mentions(indexing.err, "[bulkAdd] needEmbeddingFields length over batch size")
    /\ indexing.BatchSize = 1
    /\ indexing.idx = Len(TestDocs)
    /\ indexing.calls = << <<"asd">> >>
    /\ Len(indexing.items) = 1

\* the bulk item of a document holds the document's fields, and under each
\* embed key the vector returned for that field's text
ItemOf(item, doc) ==
    /\ item.DocumentID = doc.ID
    /\ item.Action = "index"
    /\ DOMAIN item.Body
         = DOMAIN FieldsOf(doc) \cup {FieldsOf(doc)[k].EmbedKey : k \in EmbedFields(doc)}
    /\ \A k \in DOMAIN FieldsOf(doc) : item.Body[k] = FieldsOf(doc)[k].Value
    /\ \A k \in EmbedFields(doc) :
         LET vector == item.Body[FieldsOf(doc)[k].EmbedKey]
         IN  /\ vector.t = "vector"
             /\ vector.s = FieldText(FieldsOf(doc)[k]).text
             /\ vector.call \in 1..Len(indexing.calls)
             /\ vector.s \in Range(indexing.calls[vector.call])

Stored == indexing.pc = "done" /\ indexing.err.nil

\* C30: when Store succeeds, one bulk item was added per document, in the
\* order of the documents, with the document's ID, and each embed key holds
\* the vector the embedder returned for that document's field text, from a
\* call no earlier than the calls of the documents before it; Store returns
\* the IDs in the order of the documents.
C30_StoreItems ==
    Stored =>
        /\ Len(indexing.items) = Len(indexing.docs)
        /\ \A j \in 1..Len(indexing.docs) : ItemOf(indexing.items[j], indexing.docs[j])
        /\ \A j \in 1..Len(indexing.items) : \A h \in 1..(j - 1) :
             \A c \in CallsOf(indexing.items[h]) : \A d \in CallsOf(indexing.items[j]) :
                 c <= d
        /\ indexing.tuples = <<>>
        /\ Len(indexing.ids) = Len(indexing.docs)
        /\ \A j \in 1..Len(indexing.docs) : indexing.ids[j] = indexing.docs[j].ID

\* three documents stored in two batches, the third with the ID of the first
C30_Witness ==
    /\ Stored
    /\ indexing.BatchSize = 2
    /\ Len(indexing.docs) = Len(TestDocs)
    /\ Len(indexing.calls) = 2
    /\ indexing.ids = <<"123", "456", "123">>
    /\ \A j \in 1..Len(indexing.docs) : indexing.docs[j].shape = "one"
    /\ indexing.items[Len(indexing.items)].Body["vk1"] = Vector(2, "zxc")

====
